---- MODULE Spec2Model ----
(***************************************************************************)
(* Phone-validation multi-agent pipeline: DecisionAgent (plan),            *)
(* ValidationAgent (metadata), WhatsAppAgent (presence), RetryAgent        *)
(* (resilience), ConfidenceAgent (scoring) and the Supervisor that         *)
(* sequences them.                                                         *)
(*                                                                         *)
(* An optional value (TypeScript `T | undefined`, `T | null`) is a         *)
(* sequence of length at most one: <<>> is undefined, <<v>> is v.          *)
(***************************************************************************)
EXTENDS Integers, Sequences, FiniteSets, TLC

VARIABLES
  pc,             \* position of the run inside Supervisor.validate / executeWithRetry
  request,        \* ValidationRequest of the run
  plan,           \* optional ExecutionPlan (this.state.currentPlan / local plan)
  stage,          \* which task executeWithRetry is wrapping
  taskCalls,      \* invocations of the wrapped task, per stage
  context,        \* RetryAgent.execute: local RetryContext
  finalResponse,  \* RetryAgent.execute: local finalResponse (optional)
  retryResult,    \* RetryResult returned by RetryAgent.execute, per stage (optional)
  response,       \* AgentResponse returned by executeWithRetry (optional)
  waited,         \* milliseconds slept in RetryAgent.sleep during the run
  validationData, \* Supervisor.validate: local validationData (optional)
  retryContext,   \* Supervisor.validate: local retryContext (optional)
  whatsappData,   \* Supervisor.validate: local whatsappData (optional)
  result,         \* ValidationResult returned to the caller (optional)
  thrown,         \* Error that left validate / executeWithRetry (optional)
  confInput,      \* ConfidenceInput handed to ConfidenceAgent.execute (optional)
  confOutput,     \* AgentResponse<ConfidenceScore> it returned (optional)
  apiConfig,      \* SupervisorConfig.apiConfig: tools with a primary / backup key
  keySetUsed,     \* credential set the last invocation of the wrapped task used
  inactiveInput,  \* argument of InactiveAccountAgent.analyzeInactivity (optional)
  inactiveOutput, \* InactivityStatus it returned (optional)
  valInput,       \* ValidationInput handed to ValidationAgent.execute (optional)
  valOutput,      \* AgentResponse<ValidationData> it returned (optional)
  thoughtProcess, \* BaseAgent.thoughtProcess of each ConfidenceAgent instance (length)
  calls,          \* ConfidenceAgent.execute calls made so far: instance, input, response
  toolsCalled,    \* ValidationAgent.execute: positions of input.tools whose source was called
  maxExecutionTime, \* SupervisorConfig.maxExecutionTime, in milliseconds
  served,         \* validate calls one Supervisor has completed: request, answers, result
  execInput,      \* InactiveAccountInput handed to InactiveAccountAgent.execute (optional)
  lookups,        \* execute: what the two lookups of Promise.all resolved to, and their failures
  execOutput,     \* AgentResponse<InactivityStatus> that execute returned (optional)
  requestQueue,   \* WhatsAppAgent.requestQueue: the queued requests, oldest first
  processing,     \* WhatsAppAgent.processing
  reqState,       \* each rateLimitedRequest call: not made, queued, running, resolved, rejected
  enqueued,       \* requests in the order rateLimitedRequest pushed them
  started         \* requests in the order processQueue called their fn

retryVars == <<stage, taskCalls, context, finalResponse, retryResult, response, waited,
               keySetUsed>>
runVars   == <<request, plan, validationData, retryContext, whatsappData,
               result, thrown, apiConfig>>
confVars  == <<confInput, confOutput>>
queueVars == <<requestQueue, processing, reqState, enqueued, started>>
extVars   == <<toolsCalled, maxExecutionTime, served, execInput, lookups, execOutput,
               queueVars>>
auxVars   == <<inactiveInput, inactiveOutput, valInput, valOutput, thoughtProcess, calls,
               extVars>>
vars      == <<pc, retryVars, runVars, confVars, auxVars>>

-----------------------------------------------------------------------------
(* Generic helpers *)

Some(v) == <<v>>
Undefined == <<>>
IsDefined(o) == Len(o) > 0
Get(o) == o[1]

Min(a, b) == IF a < b THEN a ELSE b
Max(a, b) == IF a > b THEN a ELSE b

\* s.startsWith(p) on sequences of characters
StartsWith(s, p) == /\ Len(p) <= Len(s)
                    /\ \A i \in 1..Len(p) : s[i] = p[i]

RECURSIVE SelectSeqBy(_, _)
\* Array.prototype.filter with the predicate given as a set of accepted elements
SelectSeqBy(s, keep) ==
  IF s = <<>> THEN <<>>
  ELSE IF Head(s) \in keep THEN <<Head(s)>> \o SelectSeqBy(Tail(s), keep)
       ELSE SelectSeqBy(Tail(s), keep)

Digits == {"0", "1", "2", "3", "4", "5", "6", "7", "8", "9"}

\* phoneNumber.replace(/\D/g, '')
Cleaned(phoneNumber) == SelectSeqBy(phoneNumber, Digits)

-----------------------------------------------------------------------------
(* BaseAgent responses *)

\* BaseAgent.createSuccessResponse
createSuccessResponse(agent, data, retriesAttempted) ==
  [success |-> TRUE, agent |-> agent, data |-> Some(data), error |-> Undefined,
   retriesAttempted |-> retriesAttempted]

\* BaseAgent.createErrorResponse
createErrorResponse(agent, code, recoverable, suggestedAction) ==
  [success |-> FALSE, agent |-> agent, data |-> Undefined,
   error |-> Some([code |-> code, recoverable |-> recoverable,
                   suggestedAction |-> suggestedAction]),
   retriesAttempted |-> 0]

-----------------------------------------------------------------------------
(* DecisionAgent *)

\* high-risk list with one country missing
HIGH_RISK_COUNTRIES_WithoutKE == {"NG", "PK", "IN", "BD", "ID", "GH", "UG", "ZA"}

HIGH_RISK_COUNTRIES == {"NG", "PK", "IN", "BD", "ID", "GH", "KE", "UG", "ZA"}
LANDLINE_COMMON_COUNTRIES == {"DE", "FR", "IT", "ES", "JP", "KR", "CN"}

\* DecisionAgent.detectCountryCode
detectCountryCode(phoneNumber) ==
  LET cleaned == Cleaned(phoneNumber) IN
  IF StartsWith(cleaned, <<"1">>) THEN "US"
  ELSE IF StartsWith(cleaned, <<"4", "4">>) THEN "GB"
  ELSE IF StartsWith(cleaned, <<"9", "1">>) THEN "IN"
  ELSE IF StartsWith(cleaned, <<"2", "3", "4">>) THEN "NG"
  ELSE IF StartsWith(cleaned, <<"8", "6">>) THEN "CN"
  ELSE IF StartsWith(cleaned, <<"8", "1">>) THEN "JP"
  ELSE IF StartsWith(cleaned, <<"4", "9">>) THEN "DE"
  ELSE IF StartsWith(cleaned, <<"3", "3">>) THEN "FR"
  ELSE IF StartsWith(cleaned, <<"9", "2">>) THEN "PK"
  ELSE IF StartsWith(cleaned, <<"6", "2">>) THEN "ID"
  ELSE "UNKNOWN"

\* DecisionAgent.isLandlineLikely
isLandlineLikely(phoneNumber, country) ==
  IF country \in LANDLINE_COMMON_COUNTRIES
  THEN IF country = "US" THEN FALSE
       ELSE IF country = "DE"
            THEN ~StartsWith(Cleaned(phoneNumber), <<"4", "9", "1">>)
            ELSE FALSE
  ELSE FALSE

\* steps.push of the validation steps, DecisionAgent.createExecutionPlan
ValidationSteps(isHighRisk) ==
  IF isHighRisk
  THEN << [id |-> 1, agent |-> "validation", tool |-> "numverify", dependsOn |-> {}],
          [id |-> 2, agent |-> "validation", tool |-> "abstract", dependsOn |-> {}] >>
  ELSE << [id |-> 1, agent |-> "validation", tool |-> "numverify", dependsOn |-> {}] >>

\* DecisionAgent.createExecutionPlan; estimatedCost in units of $0.0001
createExecutionPlan(phoneNumber, country, isHighRisk, landlineLikely, prioritizeSpeed) ==
  LET steps1 == ValidationSteps(isHighRisk)
      cost1  == IF isHighRisk THEN 20 ELSE 10
      skipWhatsApp == landlineLikely \/ prioritizeSpeed
      steps2 == IF ~skipWhatsApp
                THEN Append(steps1, [id |-> Len(steps1) + 1, agent |-> "whatsapp",
                                     tool |-> "whatsapp", dependsOn |-> {1}])
                ELSE steps1
      cost2  == IF ~skipWhatsApp THEN cost1 + 15 ELSE cost1
      steps3 == Append(steps2, [id |-> Len(steps2) + 1, agent |-> "confidence",
                                tool |-> "none",
                                dependsOn |-> {steps2[i].id : i \in 1..Len(steps2)}])
      reasoning == << IF isHighRisk
                      THEN "High-risk country detected: using dual validation"
                      ELSE "Standard validation with primary API",
                      IF ~skipWhatsApp
                      THEN "WhatsApp check included for mobile numbers"
                      ELSE IF landlineLikely
                           THEN "Skipping WhatsApp check: likely landline"
                           ELSE "Skipping WhatsApp check: speed prioritized",
                      "Total estimated cost: " \o ToString(cost2) >>
  IN [steps |-> steps3,
      estimatedCost |-> cost2,
      riskLevel |-> IF isHighRisk THEN "high" ELSE "low",
      skipWhatsApp |-> skipWhatsApp,
      reasoning |-> reasoning]

\* DecisionAgent.execute: the plan it returns in its success response
DecisionExecute(req) ==
  LET detectedCountry == detectCountryCode(req.phoneNumber)
      finalCountry    == IF req.country # "" THEN req.country ELSE detectedCountry
      isHighRisk      == finalCountry \in HIGH_RISK_COUNTRIES
      landlineLikely  == isLandlineLikely(req.phoneNumber, finalCountry)
  IN createExecutionPlan(req.phoneNumber, finalCountry, isHighRisk, landlineLikely,
                         req.prioritizeSpeed)

-----------------------------------------------------------------------------
(* ValidationAgent *)

\* A tool call returns { data } or { error: { code } }
ToolData(d)  == [error |-> Undefined, data |-> Some(d)]
ToolError(c) == [error |-> Some(c), data |-> Undefined]

RECURSIVE ValidationLoop(_, _, _, _, _)
\* ValidationAgent.execute: the loop over input.tools.  outs[i] is what the
\* i-th planned tool answers when it is called.  Yields the results array and
\* whether the loop was left by the AUTH_ERROR return, and the positions from
\* i on whose source was called (callNumVerify / callAbstract).
ValidationLoop(tools, apiKeys, outs, i, results) ==
  IF i > Len(tools) THEN [auth |-> FALSE, results |-> results, called |-> <<>>]
  ELSE IF tools[i] \in {"numverify", "abstract"} /\ tools[i] \in apiKeys
       THEN IF IsDefined(outs[i].error)
            THEN IF Get(outs[i].error) \in {"401", "403"}
                 THEN [auth |-> TRUE, results |-> results, called |-> <<i>>]
                 ELSE LET rest == ValidationLoop(tools, apiKeys, outs, i + 1, results)
                      IN [rest EXCEPT !.called = <<i>> \o rest.called]
            ELSE LET rest == ValidationLoop(tools, apiKeys, outs, i + 1,
                               Append(results,
                                      [source |-> tools[i], data |-> Get(outs[i].data)]))
                 IN [rest EXCEPT !.called = <<i>> \o rest.called]
       ELSE ValidationLoop(tools, apiKeys, outs, i + 1, results)

\* String.prototype.toLowerCase on the line-type strings the sources return
ToLowerCase(s) ==
  CASE s = "Mobile"     -> "mobile"
    [] s = "MOBILE"     -> "mobile"
    [] s = "Landline"   -> "landline"
    [] s = "FIXED_LINE" -> "fixed_line"
    [] s = "VoIP"       -> "voip"
    [] OTHER            -> s

\* typeMap[...] || 'unknown' in ValidationAgent.aggregateResults
typeMap(t) ==
  CASE t = "mobile"     -> "mobile"
    [] t = "landline"   -> "landline"
    [] t = "fixed_line" -> "landline"
    [] t = "voip"       -> "voip"
    [] OTHER            -> "unknown"

RECURSIVE MergeResults(_, _)
\* ValidationAgent.aggregateResults: the loop `for (const result of results)`
MergeResults(results, acc) ==
  IF results = <<>> THEN acc
  ELSE LET r == Head(results)
           d == r.data
           acc1 ==
             IF r.source = "numverify"
             THEN [acc EXCEPT !.valid = d.valid \/ acc.valid,
                              !.lineType = IF d.line_type # ""
                                           THEN ToLowerCase(d.line_type)
                                           ELSE acc.lineType]
             ELSE IF r.source = "abstract"
             THEN [acc EXCEPT !.valid = d.valid \/ acc.valid,
                              !.lineType = IF d.type # ""
                                           THEN typeMap(ToLowerCase(d.type))
                                           ELSE acc.lineType]
             ELSE acc
       IN MergeResults(Tail(results), acc1)

\* ValidationAgent.aggregateResults.  Of ValidationData the fields read by the
\* Supervisor and the ConfidenceAgent are kept (lineType, valid, source, rawData).
aggregateResults(results) ==
  MergeResults(results,
    [lineType |-> "unknown",
     valid    |-> FALSE,
     source   |-> IF Len(results) > 1 THEN "both" ELSE results[1].source,
     rawData  |-> results])

\* input.retryContext?.attempts || 0
AttemptsOrZero(ctx) == IF IsDefined(ctx) THEN Get(ctx).attempts ELSE 0

\* ValidationAgent.execute with the AUTH_ERROR return taken only when no
\* source has answered with data
ValidationExecuteAuthLast(tools, apiKeys, outs, ctx) ==
  LET l == ValidationLoop(tools, apiKeys, outs, 1, <<>>) IN
  IF l.auth /\ Len(l.results) = 0
  THEN createErrorResponse("validation", "AUTH_ERROR", TRUE,
                           "Trigger Retry Agent with backup key")
  ELSE IF Len(l.results) = 0
  THEN createErrorResponse("validation", "NO_DATA", TRUE,
                           "Retry with different APIs or check API status")
  ELSE createSuccessResponse("validation", aggregateResults(l.results),
                             AttemptsOrZero(ctx))

\* ValidationAgent.execute
ValidationExecute(tools, apiKeys, outs, ctx) ==
  LET l == ValidationLoop(tools, apiKeys, outs, 1, <<>>) IN
  IF l.auth
  THEN createErrorResponse("validation", "AUTH_ERROR", TRUE,
                           "Trigger Retry Agent with backup key")
  ELSE IF Len(l.results) = 0
  THEN createErrorResponse("validation", "NO_DATA", TRUE,
                           "Retry with different APIs or check API status")
  ELSE createSuccessResponse("validation", aggregateResults(l.results),
                             AttemptsOrZero(ctx))

-----------------------------------------------------------------------------
(* WhatsAppAgent (agents/whatsapp/WhatsAppAgent.ts, the one the Supervisor uses) *)

\* WhatsAppAgent.execute, given what checkWhatsApp answered
WhatsAppExecute(out, ctx) ==
  IF IsDefined(out.error)
  THEN IF Get(out.error) = "429"
       THEN createErrorResponse("whatsapp", "RATE_LIMIT", TRUE,
                                "Trigger Retry Agent with backoff")
       ELSE IF Get(out.error) \in {"401", "403"}
       THEN createErrorResponse("whatsapp", "AUTH_ERROR", TRUE,
                                "Check API key and permissions")
       ELSE createErrorResponse("whatsapp", "WHATSAPP_ERROR", TRUE,
                                "Retry or skip WhatsApp check")
  ELSE createSuccessResponse("whatsapp", Get(out.data), AttemptsOrZero(ctx))

-----------------------------------------------------------------------------
(* ConfidenceAgent *)

\* rawData.find(r => r.source === src)?.data
FindSource(rawData, src) ==
  LET idx == {i \in 1..Len(rawData) : rawData[i].source = src} IN
  IF idx = {} THEN Undefined
  ELSE Some(rawData[CHOOSE i \in idx : \A j \in idx : i <= j].data)

\* the carrier check of ConfidenceAgent.detectCarrierConflicts
CarrierConflict(source1, source2) ==
  IF source1.carrier # "" /\ source2.carrier # "" /\ source1.carrier # source2.carrier
  THEN << "Carrier mismatch: NumVerify=\"" \o source1.carrier
          \o "\" vs Abstract=\"" \o source2.carrier \o "\"" >>
  ELSE <<>>

\* the line-type check of ConfidenceAgent.detectCarrierConflicts
LineTypeConflict(source1, source2) ==
  LET type1 == ToLowerCase(source1.line_type)
      type2 == ToLowerCase(source2.type)
  IN IF type1 # "" /\ type2 # "" /\ type1 # type2
        /\ ~(type1 = "fixed_line" /\ type2 = "landline")
     THEN << "Line type mismatch: NumVerify=\"" \o type1
             \o "\" vs Abstract=\"" \o type2 \o "\"" >>
     ELSE <<>>

\* the validity check of ConfidenceAgent.detectCarrierConflicts
ValidityConflict(source1, source2) ==
  IF source1.valid # source2.valid
  THEN << "Validity mismatch: One API validates, the other doesn't" >>
  ELSE <<>>

\* ConfidenceAgent.detectCarrierConflicts
detectCarrierConflicts(rawData) ==
  LET source1 == FindSource(rawData, "numverify")
      source2 == FindSource(rawData, "abstract")
  IN IF IsDefined(source1) /\ IsDefined(source2)
     THEN CarrierConflict(Get(source1), Get(source2))
          \o LineTypeConflict(Get(source1), Get(source2))
          \o ValidityConflict(Get(source1), Get(source2))
     ELSE <<>>

RECURSIVE Join(_)
\* parts.join(', ')
Join(parts) ==
  IF Len(parts) = 0 THEN ""
  ELSE IF Len(parts) = 1 THEN parts[1]
  ELSE parts[1] \o ", " \o Join(Tail(parts))

\* ConfidenceAgent.generateReasoningTrace
generateReasoningTrace(finalScore, baseScore, carrierDeduction, retryDeduction, whatsappBonus, discrepancies) ==
  LET tier == IF finalScore >= 90 THEN "High confidence validation"
              ELSE IF finalScore >= 70 THEN "Moderate confidence validation"
              ELSE IF finalScore >= 50 THEN "Low confidence validation"
              ELSE "Very low confidence validation"
      parts == << tier >>
        \o (IF carrierDeduction > 0 THEN << "carrier data conflicts detected" >> ELSE <<>>)
        \o (IF retryDeduction > 0
            THEN << ToString(retryDeduction \div 10) \o " API retries required" >>
            ELSE <<>>)
        \o (IF whatsappBonus > 0
            THEN << "WhatsApp verification adds confidence" >> ELSE <<>>)
        \o (IF Len(discrepancies) > 0
            THEN << ToString(Len(discrepancies)) \o " discrepancies found" >>
            ELSE <<>>)
  IN Join(parts) \o "."

\* final score without the Math.min(100, ...) cap
FinalScoreUncapped(raw) == Max(0, raw)

\* Math.min(100, Math.max(0, raw)) of the final score calculation
FinalScore(raw) == Min(100, Max(0, raw))

\* skip deduction withheld from landlines
SkipDeductionExceptLandline(input) ==
  IF ~IsDefined(input.whatsapp) /\ input.executionPlan.skipWhatsApp
     /\ input.validation.lineType # "landline" THEN 5 ELSE 0

\* deduction of ANALYSIS 4 when no WhatsApp data is passed
SkipDeduction(input) ==
  IF ~IsDefined(input.whatsapp) /\ input.executionPlan.skipWhatsApp THEN 5 ELSE 0

\* retry deduction that does not grow with the number of attempts
RetryDeductionFlat(input) ==
  IF IsDefined(input.retryContext) /\ Get(input.retryContext).attempts > 0
  THEN 10 ELSE 0

\* retryDeduction of ANALYSIS 3
RetryDeduction(input) ==
  IF IsDefined(input.retryContext) /\ Get(input.retryContext).attempts > 0
  THEN Get(input.retryContext).attempts * 10
  ELSE 0

\* ConfidenceAgent.execute: the ConfidenceScore of its success response
ConfidenceScoreOf(input) ==
  LET v  == input.validation
      wa == input.whatsapp
      \* ANALYSIS 1
      dValid   == IF ~v.valid THEN 15 ELSE 0
      dUnknown == IF v.lineType = "unknown" THEN 5 ELSE 0
      \* ANALYSIS 2
      conflicts == IF v.source = "both" /\ Len(v.rawData) = 2
                   THEN detectCarrierConflicts(v.rawData) ELSE <<>>
      checked   == v.source = "both" /\ Len(v.rawData) = 2
      carrierDeduction == IF Len(conflicts) > 0 THEN 20 ELSE 0
      \* ANALYSIS 3
      retryDeduction == RetryDeduction(input)
      \* ANALYSIS 4
      verifiedBonus == IF IsDefined(wa) /\ Get(wa).exists /\ Get(wa).verified THEN 5 ELSE 0
      businessBonus == IF IsDefined(wa) /\ Get(wa).businessAccount THEN 3 ELSE 0
      whatsappBonus == verifiedBonus + businessBonus
      dLandline == IF IsDefined(wa) /\ v.lineType = "landline" /\ Get(wa).exists
                   THEN 10 ELSE 0
      dSkipped  == SkipDeduction(input)
      \* ANALYSIS 5
      highRisk == input.executionPlan.riskLevel = "high"
      dRisk    == IF highRisk /\ v.source # "both" THEN 10 ELSE 0
      baseScore  == 100 - dValid - dUnknown - dLandline - dSkipped - dRisk
      finalScore == FinalScore(baseScore - carrierDeduction - retryDeduction + whatsappBonus)
      discrepancies ==
           (IF dValid > 0 THEN << "Phone number failed validation" >> ELSE <<>>)
        \o (IF dUnknown > 0 THEN << "Line type could not be determined" >> ELSE <<>>)
        \o conflicts
        \o (IF retryDeduction > 0
            THEN << ToString(Get(input.retryContext).attempts)
                    \o " retry attempts required" >>
            ELSE <<>>)
        \o (IF dLandline > 0
            THEN << "Conflict: Landline with WhatsApp presence (possible VoIP)" >>
            ELSE <<>>)
        \o (IF dSkipped > 0 THEN << "WhatsApp check was skipped" >> ELSE <<>>)
        \o (IF dRisk > 0
            THEN << "High-risk country but only single-source validation" >>
            ELSE <<>>)
      recommendations ==
           (IF checked /\ Len(conflicts) = 0
            THEN << "Data validated across multiple sources" >> ELSE <<>>)
        \o (IF verifiedBonus > 0
            THEN << "WhatsApp account verified - increases confidence" >> ELSE <<>>)
        \o (IF businessBonus > 0
            THEN << "Business account detected - professional use" >> ELSE <<>>)
        \o (IF dSkipped > 0
            THEN << "Consider running WhatsApp check for mobile numbers" >> ELSE <<>>)
        \o (IF dRisk > 0
            THEN << "Recommend dual-source validation for high-risk regions" >>
            ELSE IF highRisk
            THEN << "Appropriate dual-validation used for high-risk region" >>
            ELSE <<>>)
  IN [score |-> finalScore,
      reasoning |-> generateReasoningTrace(finalScore, baseScore, carrierDeduction,
                                           retryDeduction, whatsappBonus, discrepancies),
      discrepancies |-> discrepancies,
      recommendations |-> recommendations,
      breakdown |-> [baseScore |-> baseScore,
                     carrierDeduction |-> carrierDeduction,
                     retryDeduction |-> retryDeduction,
                     whatsappBonus |-> whatsappBonus]]

\* ConfidenceAgent.execute
ConfidenceExecute(input) ==
  createSuccessResponse("confidence", ConfidenceScoreOf(input), 0)

\* number of this.think(...) calls ConfidenceAgent.execute makes for an input
ConfidenceThoughts(input) ==
  LET v  == input.validation
      wa == input.whatsapp
  IN 3 + (IF ~v.valid THEN 1 ELSE 0)
       + (IF v.lineType = "unknown" THEN 1 ELSE 0)
       + (IF v.source = "both" /\ Len(v.rawData) = 2 THEN 1 ELSE 0)
       + (IF RetryDeduction(input) > 0 THEN 1 ELSE 0)
       + (IF IsDefined(wa) /\ Get(wa).exists /\ Get(wa).verified THEN 1 ELSE 0)
       + (IF IsDefined(wa) /\ Get(wa).businessAccount THEN 1 ELSE 0)
       + (IF IsDefined(wa) /\ v.lineType = "landline" /\ Get(wa).exists THEN 1 ELSE 0)
       + (IF SkipDeduction(input) > 0 THEN 1 ELSE 0)
       + (IF input.executionPlan.riskLevel = "high" /\ v.source # "both" THEN 1 ELSE 0)
       + 1

\* an execute whose reasoning trace reads the instance's accumulated thoughts
ExecuteOnInstanceLeaky(input, thoughts) ==
  LET after == thoughts + ConfidenceThoughts(input)
      cs == ConfidenceScoreOf(input)
  IN [response |-> [success |-> TRUE, agent |-> "confidence",
                    data |-> Some([cs EXCEPT !.reasoning = @ \o ToString(after)]),
                    error |-> Undefined,
                    metadata |-> [retriesAttempted |-> 0, reasoning |-> after]],
      thoughtProcess |-> after]

\* ConfidenceAgent.execute on an instance whose thoughtProcess already holds
\* `thoughts` entries: the response, with metadata.reasoning a copy of the
\* instance's thoughtProcess (its length is kept), and the thoughtProcess after
ExecuteOnInstance(input, thoughts) ==
  LET after == thoughts + ConfidenceThoughts(input)
  IN [response |-> [success |-> TRUE, agent |-> "confidence",
                    data |-> Some(ConfidenceScoreOf(input)),
                    error |-> Undefined,
                    metadata |-> [retriesAttempted |-> 0, reasoning |-> after]],
      thoughtProcess |-> after]

\* ConfidenceAgent instances (`new ConfidenceAgent()`)
ConfidenceInstances == {"agent 1", "agent 2"}

-----------------------------------------------------------------------------
(* RetryAgent *)

MAX_ATTEMPTS == 3
BASE_BACKOFF_MS == 2000

\* RetryContext before any retry (RetryAgent.execute has not run)
IdleContext ==
  [attempts |-> 0, maxAttempts |-> MAX_ATTEMPTS, lastError |-> Undefined,
   backoffDelay |-> 0, useBackupKey |-> FALSE, failedTools |-> <<>>]

\* RetryAgent.execute: `const context: RetryContext = {...}`
InitialContext(originalError, failedTool) ==
  [attempts |-> 0, maxAttempts |-> MAX_ATTEMPTS, lastError |-> originalError,
   backoffDelay |-> BASE_BACKOFF_MS, useBackupKey |-> FALSE,
   failedTools |-> <<failedTool>>]

\* backoff that grows linearly instead of doubling
BackoffDelayLinear(attempt) == BASE_BACKOFF_MS * attempt

\* this.BASE_BACKOFF_MS * Math.pow(2, attempt - 1)
BackoffDelay(attempt) == BASE_BACKOFF_MS * 2^(attempt - 1)

\* top of the retry loop body, up to `await this.sleep(backoffDelay)`
LoopTop(ctx, attempt) ==
  [ctx EXCEPT !.attempts = attempt, !.backoffDelay = BackoffDelay(attempt)]

\* off-by-one loop bound: one more iteration than MAX_ATTEMPTS
HasNextAttemptOffByOne(attempt) == attempt <= MAX_ATTEMPTS

\* the loop condition `attempt <= MAX_ATTEMPTS`, asked after attempt `attempt`
\* for the next one
HasNextAttempt(attempt) == attempt + 1 <= MAX_ATTEMPTS

\* `if (attempt > 1 && !context.useBackupKey) context.useBackupKey = true`
SwitchKey(ctx) ==
  IF ctx.attempts > 1 /\ ~ctx.useBackupKey
  THEN [ctx EXCEPT !.useBackupKey = TRUE] ELSE ctx

\* lastError recorded when the retried task throws
ExceptionError(attempt) ==
  [code |-> "EXCEPTION", recoverable |-> attempt < MAX_ATTEMPTS, suggestedAction |-> ""]

systemFailureResponse ==
  createErrorResponse("retry", "SYSTEM_FAILURE", FALSE,
    "System is experiencing persistent issues. Try again later or contact support.")

-----------------------------------------------------------------------------
(* Inputs of a run *)

\* raw phone numbers, as sequences of characters
PhoneNumbers ==
  { <<"+", "1", "4", "1", "5">>,       \* US
    <<"+", "4", "9", "3", "0">>,       \* DE, not a 491 mobile prefix
    <<"+", "4", "9", "1", "5">>,       \* DE mobile prefix
    <<"+", "9", "1", "9", "8">>,       \* IN
    <<"+", "2", "3", "4", "8">>,       \* NG
    <<"+", "2", "5", "4", "7">>,       \* KE: no prefix rule
    <<"0", "3", "0", "-", "1">> }      \* national format

\* request.country; "" is an absent hint
CountryHints == {"", "US", "DE", "IN", "KE", "FR"}

Requests ==
  [phoneNumber : PhoneNumbers, country : CountryHints, prioritizeSpeed : BOOLEAN]

\* this.config.apiConfig.primary: the tools a primary key is configured for
PrimaryKeys == {"numverify", "abstract", "whatsapp"}

\* payloads a NumVerify lookup answers in a run
RunNumVerifyData ==
  [valid : BOOLEAN, carrier : {"AT&T"}, line_type : {"mobile", "landline", ""}]

\* payloads an Abstract lookup answers in a run
RunAbstractData ==
  [valid : {TRUE}, carrier : {"AT&T", "AT&T Mobility"}, type : {"mobile", "fixed_line"}]

\* HTTP status / error codes a metadata source answers
SourceErrors == {"401", "500"}

ToolOutcomes(tool) ==
  IF tool = "numverify"
  THEN {ToolData(d) : d \in RunNumVerifyData} \cup {ToolError(c) : c \in SourceErrors}
  ELSE {ToolData(d) : d \in RunAbstractData} \cup {ToolError(c) : c \in SourceErrors}

\* one answer per planned tool
ToolOutcomeSeqs(tools) ==
  IF Len(tools) = 1
  THEN {<<a>> : a \in ToolOutcomes(tools[1])}
  ELSE {<<a, b>> : a \in ToolOutcomes(tools[1]), b \in ToolOutcomes(tools[2])}

\* WhatsAppData that checkWhatsApp builds
WhatsAppDataSet ==
  {[exists |-> FALSE, verified |-> FALSE, businessAccount |-> FALSE]}
  \cup [exists : {TRUE}, verified : BOOLEAN, businessAccount : BOOLEAN]

WhatsAppOutcomes ==
  {ToolData(d) : d \in WhatsAppDataSet}
  \cup {ToolError(c) : c \in {"429", "401", "NETWORK_ERROR"}}

\* responses of a wrapped task that is not one of the two agents
GenericResponses ==
  { createSuccessResponse("task", "data A", 0),
    createSuccessResponse("task", "data B", 0),
    createErrorResponse("task", "AUTH_ERROR", TRUE, ""),
    createErrorResponse("task", "RATE_LIMIT", TRUE, ""),
    createErrorResponse("task", "503", TRUE, ""),
    createErrorResponse("task", "TIMEOUT", TRUE, ""),
    createErrorResponse("task", "NETWORK_ERROR", TRUE, ""),
    createErrorResponse("task", "INVALID_INPUT", FALSE, ""),
    createErrorResponse("task", "NON_RECOVERABLE", FALSE, "") }

Returned(resp) == [threw |-> FALSE, resp |-> resp]
Threw == [threw |-> TRUE, resp |-> systemFailureResponse]

RECURSIVE ToolsOfAgent(_, _)
\* steps.filter(s => s.agent === agent).map(s => s.tool)
ToolsOfAgent(steps, agent) ==
  IF steps = <<>> THEN <<>>
  ELSE (IF Head(steps).agent = agent THEN <<Head(steps).tool>> ELSE <<>>)
       \o ToolsOfAgent(Tail(steps), agent)

\* validationTools of Supervisor.validate
validationTools(p) == ToolsOfAgent(p.steps, "validation")

\* what one invocation of the wrapped task can yield in the current state
TaskOutcomes ==
  IF stage = "validation"
  THEN {Returned(ValidationExecute(validationTools(Get(plan)), apiConfig.primary,
                                   outs, retryContext))
          : outs \in ToolOutcomeSeqs(validationTools(Get(plan)))}
  ELSE IF stage = "whatsapp"
  THEN {Returned(WhatsAppExecute(o, retryContext)) : o \in WhatsAppOutcomes}
  ELSE {Returned(r) : r \in GenericResponses} \cup {Threw}

\* the `tool` argument of executeWithRetry
FailedTool ==
  IF stage = "validation" THEN validationTools(Get(plan))[1]
  ELSE IF stage = "whatsapp" THEN "whatsapp" ELSE "none"

Stages == {"validation", "whatsapp", "task"}

\* the credential set the task closures of Supervisor.validate read:
\* `apiKeys: this.config.apiConfig.primary`, `this.config.apiConfig.primary.whatsapp`
TaskKeySet == "primary"

\* apiConfig.backup of createMultiAgentSystem: no backup key, or one per tool
BackupKeys == {{}, PrimaryKeys}

APIConfigs == [primary : {PrimaryKeys}, backup : BackupKeys]

-----------------------------------------------------------------------------
(* Supervisor.executeWithRetry and RetryAgent.execute *)

\* executeWithRetry: `await task()` and, on a recoverable failure, the start of
\* RetryAgent.execute up to its first sleep
ExecCall ==
  /\ pc = "call"
  /\ taskCalls' = [taskCalls EXCEPT ![stage] = @ + 1]
  /\ \E o \in TaskOutcomes :
       IF o.threw
       THEN /\ thrown' = Some("task exception")
            /\ pc' = "thrown"
            /\ UNCHANGED <<context, finalResponse, response>>
       ELSE IF ~o.resp.success /\ IsDefined(o.resp.error)
               /\ Get(o.resp.error).recoverable
       THEN /\ context' = LoopTop(InitialContext(o.resp.error, FailedTool), 1)
            /\ finalResponse' = Undefined
            /\ pc' = "sleeping"
            /\ UNCHANGED <<response, thrown>>
       ELSE /\ response' = Some(o.resp)
            /\ pc' = "stage_done"
            /\ UNCHANGED <<context, finalResponse, thrown>>
  /\ keySetUsed' = TaskKeySet
  /\ UNCHANGED <<stage, retryResult, waited, request, plan, validationData,
                 retryContext, whatsappData, result, apiConfig, confVars, auxVars>>

\* RetryAgent.execute: the backoff sleep elapses, the key switch, and the
\* retried task is started
RetryBackoff ==
  /\ pc = "sleeping"
  /\ waited' = waited + context.backoffDelay
  /\ context' = SwitchKey(context)
  /\ pc' = "attempting"
  /\ UNCHANGED <<stage, taskCalls, finalResponse, retryResult, response, keySetUsed,
                 runVars, confVars, auxVars>>

\* RetryAgent.execute: `await input.originalTask()` settles; success returns,
\* failure goes round the loop or, after the last attempt, to the exhausted
\* return; executeWithRetry hands retryResult.finalResponse back
RetryAttempt ==
  /\ pc = "attempting"
  /\ taskCalls' = [taskCalls EXCEPT ![stage] = @ + 1]
  /\ \E o \in TaskOutcomes :
       LET attempt == context.attempts
           fr   == IF o.threw THEN finalResponse ELSE Some(o.resp)
           ctx1 == IF o.threw
                   THEN [context EXCEPT !.lastError = Some(ExceptionError(attempt))]
                   ELSE IF o.resp.success THEN context
                   ELSE [context EXCEPT !.lastError = o.resp.error]
           final == IF IsDefined(fr) THEN Get(fr) ELSE systemFailureResponse
       IN /\ finalResponse' = fr
          /\ IF ~o.threw /\ o.resp.success
             THEN /\ context' = ctx1
                  /\ retryResult' = [retryResult EXCEPT ![stage] =
                       Some([success |-> TRUE, finalResponse |-> o.resp,
                             context |-> ctx1])]
                  /\ response' = Some(o.resp)
                  /\ pc' = "stage_done"
             ELSE IF HasNextAttempt(attempt)
             THEN /\ context' = LoopTop(ctx1, attempt + 1)
                  /\ pc' = "sleeping"
                  /\ UNCHANGED <<retryResult, response>>
             ELSE /\ context' = ctx1
                  /\ retryResult' = [retryResult EXCEPT ![stage] =
                       Some([success |-> FALSE, finalResponse |-> final,
                             context |-> ctx1])]
                  /\ response' = Some(final)
                  /\ pc' = "stage_done"
  /\ keySetUsed' = TaskKeySet
  /\ UNCHANGED <<stage, waited, runVars, confVars, auxVars>>

-----------------------------------------------------------------------------
(* Supervisor.validate *)

\* PHASE 4 and FINAL RESULT of Supervisor.validate
ConfidencePhase(p, vd, wd, rc) ==
  LET input == [validation |-> vd, whatsapp |-> wd, retryContext |-> rc,
                executionPlan |-> [skipWhatsApp |-> p.skipWhatsApp,
                                   riskLevel |-> p.riskLevel]]
      confidenceResponse == ConfidenceExecute(input)
  IN /\ confInput' = Some(input)
     /\ confOutput' = Some(confidenceResponse)
     /\ IF confidenceResponse.success /\ IsDefined(confidenceResponse.data)
        THEN /\ result' = Some([validation |-> vd, whatsapp |-> wd,
                                confidence |-> Get(confidenceResponse.data),
                                executionPlan |-> p])
             /\ pc' = "done"
             /\ UNCHANGED thrown
        ELSE /\ thrown' = Some("Confidence scoring failed")
             /\ pc' = "thrown"
             /\ UNCHANGED result

\* PHASE 1: decisionAgent.execute, then PHASE 2 starts the validation task
Plan ==
  /\ pc = "start"
  /\ plan' = Some(DecisionExecute(request))
  /\ stage' = "validation"
  /\ pc' = "call"
  /\ UNCHANGED <<taskCalls, context, finalResponse, retryResult, response, waited,
                 keySetUsed, request, validationData, retryContext, whatsappData,
                 result, thrown, apiConfig, confVars, auxVars>>

\* retryContext literal built after a successful validation response
RunRetryContext(validationResponse) ==
  [attempts |-> validationResponse.retriesAttempted,
   maxAttempts |-> 3,
   lastError |-> Undefined,
   backoffDelay |-> 2000,
   useBackupKey |-> validationResponse.retriesAttempted > 0,
   failedTools |-> <<>>]

\* PHASE 3 condition that forgets the line type
RunsWhatsAppAnyLineType(p, vd) == ~p.skipWhatsApp

\* PHASE 3 condition that forgets the plan's skip flag
RunsWhatsAppIgnoringSkip(p, vd) == vd.lineType = "mobile"

\* the PHASE 3 condition `!plan.skipWhatsApp && validationData.lineType === 'mobile'`
RunsWhatsApp(p, vd) == ~p.skipWhatsApp /\ vd.lineType = "mobile"

\* PHASE 2 after executeWithRetry returned, and the PHASE 3 condition: either
\* the WhatsApp task is started or the run goes on to PHASE 4
PhaseTwoResult ==
  /\ pc = "stage_done"
  /\ stage = "validation"
  /\ LET validationResponse == Get(response) IN
     IF validationResponse.success /\ IsDefined(validationResponse.data)
     THEN LET vd == Get(validationResponse.data)
              rc == Some(RunRetryContext(validationResponse))
          IN /\ validationData' = Some(vd)
             /\ retryContext' = rc
             /\ IF RunsWhatsApp(Get(plan), vd)
                THEN /\ stage' = "whatsapp"
                     /\ pc' = "call"
                     /\ UNCHANGED <<result, thrown, confVars>>
                ELSE /\ ConfidencePhase(Get(plan), vd, Undefined, rc)
                     /\ UNCHANGED stage
     ELSE /\ thrown' = Some("Validation failed")
          /\ pc' = "thrown"
          /\ UNCHANGED <<stage, validationData, retryContext, result, confVars>>
  /\ UNCHANGED <<taskCalls, context, finalResponse, retryResult, response, waited,
                 keySetUsed, request, plan, whatsappData, apiConfig, auxVars>>

\* PHASE 3 with a failed presence check recorded as "not on WhatsApp"
WhatsAppDataOfDefaulted(whatsappResponse) ==
  IF whatsappResponse.success /\ IsDefined(whatsappResponse.data)
  THEN whatsappResponse.data
  ELSE Some([exists |-> FALSE, verified |-> FALSE, businessAccount |-> FALSE])

\* PHASE 3: `let whatsappData` is assigned only from a successful response
WhatsAppDataOf(whatsappResponse) ==
  IF whatsappResponse.success /\ IsDefined(whatsappResponse.data)
  THEN whatsappResponse.data
  ELSE Undefined

\* PHASE 3 after executeWithRetry returned, then PHASE 4
PhaseThreeResult ==
  /\ pc = "stage_done"
  /\ stage = "whatsapp"
  /\ LET whatsappResponse == Get(response)
         wd == WhatsAppDataOf(whatsappResponse)
     IN /\ whatsappData' = wd
        /\ ConfidencePhase(Get(plan), Get(validationData), wd, retryContext)
  /\ UNCHANGED <<retryVars, request, plan, validationData, retryContext, apiConfig,
                 auxVars>>

-----------------------------------------------------------------------------
(* Specification of one run of Supervisor.validate *)

InitRetry ==
  /\ keySetUsed = "none"
  /\ taskCalls = [s \in Stages |-> 0]
  /\ context = IdleContext
  /\ finalResponse = Undefined
  /\ retryResult = [s \in Stages |-> Undefined]
  /\ response = Undefined
  /\ waited = 0

InitRun ==
  /\ plan = Undefined
  /\ validationData = Undefined
  /\ retryContext = Undefined
  /\ whatsappData = Undefined
  /\ result = Undefined
  /\ thrown = Undefined

InitConf ==
  /\ confInput = Undefined
  /\ confOutput = Undefined

\* Promise.all of InactiveAccountAgent.execute before a lookup has settled
NoLookups == [history |-> Undefined, carrier |-> Undefined, failed |-> {}]

MaxQueue == 3

\* the calls of rateLimitedRequest made on one WhatsAppAgent
RequestIds == 1..MaxQueue

\* a WhatsAppAgent after construction: requestQueue = [], processing = false
InitRateLimiter ==
  /\ requestQueue = <<>>
  /\ processing = FALSE
  /\ reqState = [r \in RequestIds |-> "not made"]
  /\ enqueued = <<>>
  /\ started = <<>>

InitExt ==
  /\ InitRateLimiter
  /\ toolsCalled = <<>>
  /\ served = <<>>
  /\ execInput = Undefined
  /\ lookups = NoLookups
  /\ execOutput = Undefined

\* Supervisor constructor: the default of maxExecutionTime
DEFAULT_MAX_EXECUTION_TIME == 30000

\* maxExecutionTime of createMultiAgentSystem: the default, or the 10 seconds
\* of the custom-preferences example
MaxExecutionTimes == {DEFAULT_MAX_EXECUTION_TIME, 10000}

InitConfig ==
  /\ maxExecutionTime = DEFAULT_MAX_EXECUTION_TIME

InitAux ==
  /\ InitExt
  /\ inactiveInput = Undefined
  /\ inactiveOutput = Undefined
  /\ valInput = Undefined
  /\ valOutput = Undefined
  /\ thoughtProcess = [a \in ConfidenceInstances |-> 0]
  /\ calls = <<>>

Init ==
  /\ pc = "start"
  /\ stage = "validation"
  /\ request \in Requests
  /\ apiConfig \in APIConfigs
  /\ maxExecutionTime \in MaxExecutionTimes
  /\ InitRetry /\ InitRun /\ InitConf /\ InitAux

Next ==
  \/ Plan
  \/ ExecCall
  \/ RetryBackoff
  \/ RetryAttempt
  \/ PhaseTwoResult
  \/ PhaseThreeResult

Spec == Init /\ [][Next]_vars

-----------------------------------------------------------------------------
(* Specification of executeWithRetry around an arbitrary task *)

\* a request that plays no part when only the retry policy runs
NoRequest == [phoneNumber |-> <<>>, country |-> "", prioritizeSpeed |-> FALSE]

\* a configuration that plays no part when an agent is called on its own
NoKeys == [primary |-> {}, backup |-> {}]

InitTask ==
  /\ pc = "call"
  /\ stage = "task"
  /\ request = NoRequest
  /\ apiConfig \in APIConfigs
  /\ InitRetry /\ InitRun /\ InitConf /\ InitAux
  /\ InitConfig

NextTask ==
  \/ ExecCall
  \/ RetryBackoff
  \/ RetryAttempt

SpecRetry == InitTask /\ [][NextTask]_vars

-----------------------------------------------------------------------------
(* Specification of ConfidenceAgent.execute on its own *)

MaxInputAttempts == 5

\* carrier strings a source may report ("" is a missing carrier)
Carriers == {"", "AT&T", "at&t", "AT&T ", "AT&T Mobility"}

\* line-type strings a source may report ("" is a missing line type)
RawLineTypes == {"", "mobile", "Mobile", "landline", "fixed_line", "voip", "toll_free"}

NumVerifyData == [valid : BOOLEAN, carrier : Carriers, line_type : RawLineTypes]
AbstractData  == [valid : BOOLEAN, carrier : Carriers, type : RawLineTypes]

\* results arrays that ValidationAgent.execute passes to aggregateResults
ResultsOver(nv, ab) ==
  {<<[source |-> "numverify", data |-> a], [source |-> "abstract", data |-> b]>>
     : a \in nv, b \in ab}
  \cup {<<[source |-> "numverify", data |-> a]>> : a \in nv}
  \cup {<<[source |-> "abstract", data |-> b]>> : b \in ab}

ConfidenceInputOf(results, wa, rc, skip, risk) ==
  [validation |-> aggregateResults(results), whatsapp |-> wa, retryContext |-> rc,
   executionPlan |-> [skipWhatsApp |-> skip, riskLevel |-> risk]]

\* every source payload, with no presence record and no retries
DetailedSourceInputs ==
  {ConfidenceInputOf(r, Undefined, Undefined, skip, "low")
     : r \in ResultsOver(NumVerifyData, AbstractData), skip \in BOOLEAN}

PresenceInputs ==
  {Undefined} \cup {Some(w) : w \in [exists : BOOLEAN, verified : BOOLEAN,
                                     businessAccount : BOOLEAN]}

RetryInputs ==
  {Undefined} \cup {Some([IdleContext EXCEPT !.attempts = n, !.useBackupKey = n > 1])
                      : n \in 0..MaxInputAttempts}

\* every presence record, retry count and plan, over a few source payloads
CombinedInputs ==
  {ConfidenceInputOf(r, wa, rc, skip, risk)
     : r \in ResultsOver(
              [valid : BOOLEAN, carrier : {"AT&T"},
               line_type : {"", "mobile", "landline", "voip"}],
              [valid : BOOLEAN, carrier : {"AT&T", "AT&T Mobility"},
               type : {"", "mobile", "fixed_line"}]),
       wa \in PresenceInputs, rc \in RetryInputs, skip \in BOOLEAN,
       risk \in {"low", "medium", "high"}}

ConfidenceInputs == DetailedSourceInputs \cup CombinedInputs

\* one call of ConfidenceAgent.execute
ConfidenceCall ==
  /\ pc = "confidence"
  /\ confOutput' = Some(ConfidenceExecute(Get(confInput)))
  /\ pc' = "confidence_done"
  /\ UNCHANGED <<confInput, retryVars, runVars, auxVars>>

InitConfidence ==
  /\ pc = "confidence"
  /\ stage = "task"
  /\ request = NoRequest
  /\ apiConfig = NoKeys
  /\ InitRetry /\ InitRun /\ InitAux
  /\ InitConfig
  /\ confInput \in {Some(i) : i \in ConfidenceInputs}
  /\ confOutput = Undefined

NextConfidence == ConfidenceCall

SpecConfidence == InitConfidence /\ [][NextConfidence]_vars

-----------------------------------------------------------------------------
(* Specification of repeated ConfidenceAgent.execute calls *)

MaxCalls == 3

\* inputs of the repeated calls
RepeatInputs ==
  {ConfidenceInputOf(r, wa, rc, skip, "high")
     : r \in ResultsOver({[valid |-> TRUE, carrier |-> "AT&T", line_type |-> "mobile"]},
                         {[valid |-> TRUE, carrier |-> "AT&T Mobility", type |-> "mobile"]}),
       wa \in {Undefined,
               Some([exists |-> TRUE, verified |-> TRUE, businessAccount |-> FALSE])},
       rc \in {Undefined, Some([IdleContext EXCEPT !.attempts = 1])},
       skip \in {TRUE}}

\* one call of ConfidenceAgent.execute on one of the instances
ConfidenceInvoke ==
  /\ pc = "confidence_idle"
  /\ Len(calls) < MaxCalls
  /\ \E a \in ConfidenceInstances, i \in RepeatInputs :
       LET r == ExecuteOnInstance(i, thoughtProcess[a])
       IN /\ calls' = Append(calls, [agent |-> a, input |-> i, response |-> r.response])
          /\ thoughtProcess' = [thoughtProcess EXCEPT ![a] = r.thoughtProcess]
  /\ UNCHANGED <<pc, inactiveInput, inactiveOutput, valInput, valOutput, extVars,
                 retryVars, runVars, confVars>>

InitConfidenceRepeat ==
  /\ pc = "confidence_idle"
  /\ stage = "task"
  /\ request = NoRequest
  /\ apiConfig = NoKeys
  /\ InitRetry /\ InitRun /\ InitConf /\ InitAux
  /\ InitConfig

NextConfidenceRepeat == ConfidenceInvoke

SpecConfidenceRepeat == InitConfidenceRepeat /\ [][NextConfidenceRepeat]_vars

-----------------------------------------------------------------------------
(* Specification of ValidationAgent.execute on its own *)

MaxTools == 2

\* ToolName values a tools list may hold
ToolNames == {"numverify", "abstract", "whatsapp"}

\* input.tools: every list of one to MaxTools tool names
ToolLists == UNION {[1..n -> ToolNames] : n \in 1..MaxTools}

\* payloads of a NumVerify lookup: data.valid, data.carrier, data.line_type,
\* with the line-type strings as the provider spells them
ValNumVerifyData ==
  RunNumVerifyData
    \cup [valid : {TRUE}, carrier : {"AT&T"},
          line_type : {"Mobile", "fixed_line", "toll_free"}]

\* payloads of an Abstract lookup: data.valid, data.carrier, data.type
ValAbstractData ==
  RunAbstractData
    \cup [valid : {TRUE}, carrier : {"AT&T"}, type : {"Landline", "toll_free"}]

\* response.status.toString() of a failed lookup
ValSourceErrors == SourceErrors \cup {"403"}

\* what a call of callNumVerify / callAbstract answers
ValidationAnswers(tool) ==
  IF tool = "numverify"
  THEN {ToolData(d) : d \in ValNumVerifyData} \cup {ToolError(c) : c \in ValSourceErrors}
  ELSE {ToolData(d) : d \in ValAbstractData} \cup {ToolError(c) : c \in ValSourceErrors}

\* what the sources answer, one answer per position of the tools list
AnswerSeqs(tools) ==
  {outs \in [1..Len(tools) -> ValidationAnswers("numverify") \cup ValidationAnswers("abstract")]
     : \A i \in 1..Len(tools) : outs[i] \in ValidationAnswers(tools[i])}

\* input.apiKeys: the tools a key is passed for
ValidationKeySets == {{"numverify", "abstract"}, {"numverify"}}

ValidationInputs ==
  UNION {[tools : {t}, apiKeys : ValidationKeySets, answers : AnswerSeqs(t)]
           : t \in ToolLists}

\* one call of ValidationAgent.execute
ValidationCall ==
  /\ pc = "validation"
  /\ LET input == Get(valInput)
     IN /\ valOutput' = Some(ValidationExecute(input.tools, input.apiKeys, input.answers,
                                            Undefined))
        /\ toolsCalled' = ValidationLoop(input.tools, input.apiKeys, input.answers,
                                         1, <<>>).called
  /\ pc' = "validation_done"
  /\ UNCHANGED <<valInput, inactiveInput, inactiveOutput, thoughtProcess, calls,
                 maxExecutionTime, served, execInput, lookups, execOutput, queueVars,
                 retryVars, runVars, confVars>>

InitValidation ==
  /\ pc = "validation"
  /\ stage = "task"
  /\ request = NoRequest
  /\ apiConfig = NoKeys
  /\ InitRetry /\ InitRun /\ InitConf
  /\ valInput \in {Some(i) : i \in ValidationInputs}
  /\ valOutput = Undefined
  /\ inactiveInput = Undefined
  /\ inactiveOutput = Undefined
  /\ thoughtProcess = [a \in ConfidenceInstances |-> 0]
  /\ calls = <<>>
  /\ InitExt /\ InitConfig

NextValidation == ValidationCall

SpecValidation == InitValidation /\ [][NextValidation]_vars

-----------------------------------------------------------------------------
(* InactiveAccountAgent *)

\* WHATSAPP_PREVALENCE, in percent
WHATSAPP_PREVALENCE ==
  [IN |-> 90, BR |-> 95, MX |-> 92, ES |-> 85, IT |-> 80, DE |-> 75, GB |-> 70,
   FR |-> 68, US |-> 30, CA |-> 35, JP |-> 40, CN |-> 5, KR |-> 25]

\* this.WHATSAPP_PREVALENCE[countryCode] || 0.50, in percent
PrevalenceOf(countryCode) ==
  IF countryCode \in DOMAIN WHATSAPP_PREVALENCE
  THEN WHATSAPP_PREVALENCE[countryCode] ELSE 50

\* InactiveAccountAgent.extractCountryCode
extractCountryCode(phoneNumber) ==
  LET cleaned == Cleaned(phoneNumber) IN
  IF StartsWith(cleaned, <<"1">>) THEN "US"
  ELSE IF StartsWith(cleaned, <<"9", "1">>) THEN "IN"
  ELSE IF StartsWith(cleaned, <<"5", "5">>) THEN "BR"
  ELSE IF StartsWith(cleaned, <<"5", "2">>) THEN "MX"
  ELSE IF StartsWith(cleaned, <<"4", "4">>) THEN "GB"
  ELSE IF StartsWith(cleaned, <<"4", "9">>) THEN "DE"
  ELSE IF StartsWith(cleaned, <<"3", "3">>) THEN "FR"
  ELSE IF StartsWith(cleaned, <<"3", "9">>) THEN "IT"
  ELSE IF StartsWith(cleaned, <<"3", "4">>) THEN "ES"
  ELSE IF StartsWith(cleaned, <<"8", "1">>) THEN "JP"
  ELSE IF StartsWith(cleaned, <<"8", "2">>) THEN "KR"
  ELSE IF StartsWith(cleaned, <<"8", "6">>) THEN "CN"
  ELSE "UNKNOWN"

\* Math.round(failureRate * 100) with failureRate = failedMessages / totalMessages
FailureRatePercent(h) ==
  (200 * h.failedMessages + h.totalMessages) \div (2 * h.totalMessages)

\* Check 1, failure rate: failureRate > 0.8 gives 35, failureRate > 0.5 gives 20
FailureRateScore(h) ==
  IF 10 * h.failedMessages > 8 * h.totalMessages THEN 35
  ELSE IF 2 * h.failedMessages > h.totalMessages THEN 20
  ELSE 0

\* Check 1, time since the last successful delivery, in whole days
SinceSuccessScore(daysSinceSuccess) ==
  IF daysSinceSuccess > 730 THEN 40
  ELSE IF daysSinceSuccess > 365 THEN 30
  ELSE IF daysSinceSuccess > 180 THEN 20
  ELSE IF daysSinceSuccess > 30 THEN 10
  ELSE 0

\* reason pushed with the time-since-success score
SinceSuccessReason(daysSinceSuccess) ==
  IF daysSinceSuccess > 730
  THEN << "No successful delivery for " \o ToString(daysSinceSuccess \div 365) \o " years" >>
  ELSE IF daysSinceSuccess > 365
  THEN << "No successful delivery for " \o ToString(daysSinceSuccess \div 365) \o " year" >>
  ELSE IF daysSinceSuccess > 180
  THEN << "No successful delivery for " \o ToString(daysSinceSuccess \div 30) \o " months" >>
  ELSE IF daysSinceSuccess > 30
  THEN << "No successful delivery for " \o ToString(daysSinceSuccess) \o " days" >>
  ELSE <<>>

\* Check 1: Delivery History Analysis.  lastSuccessfulDelivery holds the whole
\* days between that delivery and Date.now().
HistoryAnalysis(h) ==
  IF h.totalMessages > 0
  THEN LET days == IF IsDefined(h.lastSuccessfulDelivery)
                   THEN Get(h.lastSuccessfulDelivery) ELSE 0
       IN [score |-> FailureRateScore(h) + SinceSuccessScore(days),
           reasons |->
             (IF FailureRateScore(h) > 0
              THEN << ToString(FailureRatePercent(h))
                      \o "% message delivery failure rate" >>
              ELSE <<>>)
             \o SinceSuccessReason(days),
           daysSinceActive |-> IF days > 30 THEN days ELSE 0]
  ELSE [score |-> 0,
        reasons |-> << "No delivery history available for analysis" >>,
        daysSinceActive |-> 0]

\* carrier check with a heavier penalty for a number the carrier dropped
CarrierScoreHeavier(carrierStatus) ==
  IF ~carrierStatus.active THEN 35
  ELSE IF carrierStatus.lineType = "landline" THEN 25
  ELSE IF carrierStatus.lineType = "voip" THEN 10
  ELSE 0

\* Check 2: Carrier Status
CarrierScore(carrierStatus) ==
  IF ~carrierStatus.active THEN 30
  ELSE IF carrierStatus.lineType = "landline" THEN 25
  ELSE IF carrierStatus.lineType = "voip" THEN 10
  ELSE 0

\* reason pushed with the carrier score
CarrierReason(carrierStatus) ==
  IF ~carrierStatus.active
  THEN << "Phone number is no longer active with carrier" >>
  ELSE IF carrierStatus.lineType = "landline"
  THEN << "Landline number (unlikely to have active WhatsApp)" >>
  ELSE IF carrierStatus.lineType = "voip"
  THEN << "VoIP number (moderate WhatsApp usage)" >>
  ELSE <<>>

\* Check 3: Country-specific prevalence (whatsappPrevalence < 0.4)
PrevalenceScore(countryCode) ==
  IF PrevalenceOf(countryCode) < 40 THEN 15 ELSE 0

\* InactiveAccountAgent.suggestAlternatives
suggestAlternatives(score, carrierStatus) ==
  IF score >= 50
  THEN (IF carrierStatus.lineType = "mobile" THEN << "SMS", "Voice Call" >> ELSE <<>>)
       \o (IF carrierStatus.lineType = "landline" THEN << "Voice Call" >> ELSE <<>>)
       \o << "Email", "Postal Mail" >>
  ELSE IF score >= 30
  THEN (IF carrierStatus.lineType = "mobile" THEN << "SMS" >> ELSE <<>>)
       \o << "Email" >>
  ELSE <<>>

\* InactiveAccountAgent.analyzeInactivity; confidence in percent
analyzeInactivity(data) ==
  LET countryCode == extractCountryCode(data.phoneNumber)
      history == HistoryAnalysis(data.deliveryHistory)
      score == history.score + CarrierScore(data.carrierStatus)
               + PrevalenceScore(countryCode)
      reasons == history.reasons \o CarrierReason(data.carrierStatus)
                 \o (IF PrevalenceScore(countryCode) > 0
                     THEN << "Low WhatsApp adoption in " \o countryCode \o " ("
                             \o ToString(PrevalenceOf(countryCode)) \o "% prevalence)" >>
                     ELSE <<>>)
  IN [isInactive |-> score >= 50,
      daysSinceActive |-> history.daysSinceActive,
      inactivityScore |-> score,
      deliveryProbability |-> Max(0, Min(100, 100 - score)),
      confidence |-> Min(100, score),
      severity |-> IF score >= 80 THEN "critical"
                   ELSE IF score >= 60 THEN "high"
                   ELSE IF score >= 40 THEN "moderate"
                   ELSE IF score >= 20 THEN "low"
                   ELSE "none",
      reasons |-> reasons,
      alternativeChannels |-> suggestAlternatives(score, data.carrierStatus),
      countryPrevalence |-> [country |-> countryCode,
                             whatsappUsage |-> PrevalenceOf(countryCode)]]

\* phone numbers of the inactivity analysis, as sequences of characters
InactivePhoneNumbers ==
  { <<"+", "1", "4", "1", "5">>,       \* US, 30% prevalence
    <<"+", "9", "1", "9", "8">>,       \* IN
    <<"+", "4", "9", "3", "0">>,       \* DE
    <<"+", "8", "6", "1", "0">>,       \* CN, 5%
    <<"+", "8", "2", "1", "0">>,       \* KR, 25%
    <<"+", "8", "1", "9", "0">>,       \* JP, 40%: not below the threshold
    <<"+", "2", "5", "4", "7">> }      \* no prefix rule: UNKNOWN, 50%

\* whole days since the last successful delivery, around each threshold
DaysSinceSuccess == {0, 30, 31, 180, 181, 365, 366, 730, 731, 1100}

\* DeliveryHistory records: none, or ten messages of which some failed
DeliveryHistories ==
  { [totalMessages |-> 0, deliveredMessages |-> 0, failedMessages |-> 0,
     lastSuccessfulDelivery |-> Undefined] }
  \cup { [totalMessages |-> 10, deliveredMessages |-> 10 - f, failedMessages |-> f,
          lastSuccessfulDelivery |-> d]
           : f \in {0, 5, 6, 8, 9},
             d \in {Undefined} \cup {Some(n) : n \in DaysSinceSuccess} }
  \cup { [totalMessages |-> 10, deliveredMessages |-> 0, failedMessages |-> 10,
          lastSuccessfulDelivery |-> Undefined] }

\* CarrierStatus records
CarrierStatuses ==
  [active : BOOLEAN, lineType : {"mobile", "landline", "voip", "unknown"},
   carrier : {"AT&T"}]

InactivityInputs ==
  [phoneNumber : InactivePhoneNumbers, deliveryHistory : DeliveryHistories,
   carrierStatus : CarrierStatuses]

\* InactiveAccountAgent.execute: `const analysis = this.analyzeInactivity({...})`
InactivityCall ==
  /\ pc = "inactive"
  /\ inactiveOutput' = Some(analyzeInactivity(Get(inactiveInput)))
  /\ pc' = "inactive_done"
  /\ UNCHANGED <<inactiveInput, valInput, valOutput, thoughtProcess, calls, extVars,
                 retryVars, runVars, confVars>>

InitInactivity ==
  /\ pc = "inactive"
  /\ stage = "task"
  /\ request = NoRequest
  /\ apiConfig = NoKeys
  /\ InitRetry /\ InitRun /\ InitConf
  /\ inactiveInput \in {Some(i) : i \in InactivityInputs}
  /\ inactiveOutput = Undefined
  /\ valInput = Undefined
  /\ valOutput = Undefined
  /\ thoughtProcess = [a \in ConfidenceInstances |-> 0]
  /\ calls = <<>>
  /\ InitExt /\ InitConfig

NextInactivity == InactivityCall

SpecInactivity == InitInactivity /\ [][NextInactivity]_vars

-----------------------------------------------------------------------------
(* Specification of InactiveAccountAgent.execute *)

\* String.prototype.charCodeAt(0) of the characters of a phone number
CharCode(c) ==
  CASE c = "+" -> 43
    [] c = "-" -> 45
    [] c = "0" -> 48 [] c = "1" -> 49 [] c = "2" -> 50 [] c = "3" -> 51
    [] c = "4" -> 52 [] c = "5" -> 53 [] c = "6" -> 54 [] c = "7" -> 55
    [] c = "8" -> 56 [] c = "9" -> 57

RECURSIVE PhoneHash(_)
\* phoneNumber.split('').reduce((acc, char) => acc + char.charCodeAt(0), 0)
PhoneHash(phoneNumber) ==
  IF phoneNumber = <<>> THEN 0
  ELSE CharCode(Head(phoneNumber)) + PhoneHash(Tail(phoneNumber))

\* the DeliveryHistory of a number without messages, also the catch value
EmptyHistory ==
  [totalMessages |-> 0, deliveredMessages |-> 0, failedMessages |-> 0,
   lastSuccessfulDelivery |-> Undefined]

\* getDeliveryHistory: the try block
MockDeliveryHistory(phoneNumber) ==
  LET hash == PhoneHash(phoneNumber)
      totalMessages == (hash % 50) + 10
      failedMessages == (totalMessages * (hash % 100)) \div 100
      deliveredMessages == totalMessages - failedMessages
  IN IF ~(hash % 10 > 3) THEN EmptyHistory
     ELSE [totalMessages |-> totalMessages,
           deliveredMessages |-> deliveredMessages,
           failedMessages |-> failedMessages,
           lastSuccessfulDelivery |->
             IF deliveredMessages > 0 THEN Some(hash % 730) ELSE Undefined]

\* how the try block of getDeliveryHistory ends
HistoryOutcomes == {"returns", "throws"}

\* InactiveAccountAgent.getDeliveryHistory
getDeliveryHistory(phoneNumber, outcome) ==
  IF outcome = "throws" THEN EmptyHistory ELSE MockDeliveryHistory(phoneNumber)

\* checkCarrierStatus: the mock response
MockCarrierStatus(phoneNumber) ==
  LET hash == PhoneHash(phoneNumber)
  IN [active |-> hash % 10 > 1,
      lineType |-> IF hash % 10 > 3 THEN "mobile" ELSE "landline",
      carrier |-> "AT&T"]

\* what the Twilio lookup does: a body, a status that is not ok, or a
\* rejected fetch
TwilioOutcomes ==
  [kind : {"body"}, valid : BOOLEAN, type : {"", "mobile", "landline", "voip"}]
  \cup {[kind |-> "status", valid |-> FALSE, type |-> ""],
        [kind |-> "rejects", valid |-> FALSE, type |-> ""]}

\* checkCarrierStatus: the catch value, reported inactive
InactiveOnFailure(phoneNumber, hasCredentials, outcome) ==
  IF ~hasCredentials THEN MockCarrierStatus(phoneNumber)
  ELSE IF outcome.kind = "body"
  THEN [active |-> outcome.valid,
        lineType |-> IF outcome.type # "" THEN outcome.type ELSE "unknown",
        carrier |-> "AT&T"]
  ELSE [active |-> FALSE, lineType |-> "unknown", carrier |-> "unknown"]

\* InactiveAccountAgent.checkCarrierStatus; hasCredentials is
\* accountSid && authToken && !accountSid.includes('demo')
checkCarrierStatus(phoneNumber, hasCredentials, outcome) ==
  IF ~hasCredentials THEN MockCarrierStatus(phoneNumber)
  ELSE IF outcome.kind = "body"
  THEN [active |-> outcome.valid,
        lineType |-> IF outcome.type # "" THEN outcome.type ELSE "unknown",
        carrier |-> "AT&T"]
  ELSE [active |-> TRUE, lineType |-> "mobile", carrier |-> "unknown"]

ExecInputs == [phoneNumber : InactivePhoneNumbers, hasCredentials : BOOLEAN]

\* execute up to `await Promise.all([...])`: both lookups are started
ExecStart ==
  /\ pc = "exec"
  /\ pc' = "exec_lookups"
  /\ UNCHANGED <<retryVars, runVars, confVars, auxVars>>

\* getDeliveryHistory settles
HistorySettles ==
  /\ pc = "exec_lookups"
  /\ ~IsDefined(lookups.history)
  /\ \E o \in HistoryOutcomes :
       lookups' = [lookups EXCEPT
         !.history = Some(getDeliveryHistory(Get(execInput).phoneNumber, o)),
         !.failed = IF o = "throws" THEN @ \cup {"history"} ELSE @]
  /\ UNCHANGED <<pc, inactiveInput, inactiveOutput, valInput, valOutput, thoughtProcess,
                 calls, toolsCalled, maxExecutionTime, served, execInput, execOutput,
                 queueVars, retryVars, runVars, confVars>>

\* checkCarrierStatus settles
CarrierSettles ==
  /\ pc = "exec_lookups"
  /\ ~IsDefined(lookups.carrier)
  /\ \E o \in TwilioOutcomes :
       lookups' = [lookups EXCEPT
         !.carrier = Some(checkCarrierStatus(Get(execInput).phoneNumber,
                                             Get(execInput).hasCredentials, o)),
         !.failed = IF Get(execInput).hasCredentials /\ o.kind # "body"
                    THEN @ \cup {"carrier"} ELSE @]
  /\ UNCHANGED <<pc, inactiveInput, inactiveOutput, valInput, valOutput, thoughtProcess,
                 calls, toolsCalled, maxExecutionTime, served, execInput, execOutput,
                 queueVars, retryVars, runVars, confVars>>

\* execute after Promise.all resolved: analyzeInactivity and the response
ExecResume ==
  /\ pc = "exec_lookups"
  /\ IsDefined(lookups.history)
  /\ IsDefined(lookups.carrier)
  /\ LET data == [phoneNumber |-> Get(execInput).phoneNumber,
                  deliveryHistory |-> Get(lookups.history),
                  carrierStatus |-> Get(lookups.carrier)]
         analysis == analyzeInactivity(data)
     IN /\ inactiveInput' = Some(data)
        /\ inactiveOutput' = Some(analysis)
        /\ execOutput' = Some(createSuccessResponse("inactive", analysis, 0))
  /\ pc' = "exec_done"
  /\ UNCHANGED <<valInput, valOutput, thoughtProcess, calls, toolsCalled,
                 maxExecutionTime, served, execInput, lookups, queueVars,
                 retryVars, runVars, confVars>>

InitExec ==
  /\ pc = "exec"
  /\ stage = "task"
  /\ request = NoRequest
  /\ apiConfig = NoKeys
  /\ InitRetry /\ InitRun /\ InitConf
  /\ inactiveInput = Undefined
  /\ inactiveOutput = Undefined
  /\ valInput = Undefined
  /\ valOutput = Undefined
  /\ thoughtProcess = [a \in ConfidenceInstances |-> 0]
  /\ calls = <<>>
  /\ toolsCalled = <<>>
  /\ served = <<>>
  /\ execInput \in {Some(i) : i \in ExecInputs}
  /\ lookups = NoLookups
  /\ execOutput = Undefined
  /\ InitRateLimiter
  /\ InitConfig

NextExec ==
  \/ ExecStart
  \/ HistorySettles
  \/ CarrierSettles
  \/ ExecResume

SpecExec == InitExec /\ [][NextExec]_vars

-----------------------------------------------------------------------------
(* WhatsAppAgent (part_001): rateLimitedRequest and processQueue *)

\* processQueue that takes the newest queued request
processQueueNewestFirst(queue, busy) ==
  IF busy \/ Len(queue) = 0
  THEN [requestQueue |-> queue, processing |-> busy, fn |-> Undefined]
  ELSE [requestQueue |-> SubSeq(queue, 1, Len(queue) - 1), processing |-> TRUE,
        fn |-> Some(queue[Len(queue)])]

\* WhatsAppAgent.processQueue up to `await fn()`: the guard, processing = true,
\* requestQueue.shift() and the call of fn
processQueue(queue, busy) ==
  IF busy \/ Len(queue) = 0
  THEN [requestQueue |-> queue, processing |-> busy, fn |-> Undefined]
  ELSE [requestQueue |-> Tail(queue), processing |-> TRUE, fn |-> Some(Head(queue))]

\* the agent after processQueue() was called with requestQueue = queue and
\* processing = busy, `states` being the request states at the call
AfterProcessQueue(queue, busy, states) ==
  LET p == processQueue(queue, busy)
  IN /\ requestQueue' = p.requestQueue
     /\ processing' = p.processing
     /\ IF IsDefined(p.fn)
        THEN /\ reqState' = [states EXCEPT ![Get(p.fn)] = "running"]
             /\ started' = Append(started, Get(p.fn))
        ELSE /\ reqState' = states
             /\ started' = started

\* WhatsAppAgent.rateLimitedRequest: push, then processQueue()
RateLimitedRequest ==
  /\ pc = "queue"
  /\ \E r \in RequestIds :
       /\ reqState[r] = "not made"
       /\ enqueued' = Append(enqueued, r)
       /\ AfterProcessQueue(Append(requestQueue, r), processing,
                            [reqState EXCEPT ![r] = "queued"])
  /\ UNCHANGED <<pc, inactiveInput, inactiveOutput, valInput, valOutput, thoughtProcess,
                 calls, toolsCalled, maxExecutionTime, served, execInput, lookups,
                 execOutput, retryVars, runVars, confVars>>

\* processQueue: `await fn()` settles, resolve(result) or reject(error), and
\* the finally block starts its sleep
FnSettles ==
  /\ pc = "queue"
  /\ \E r \in RequestIds :
       /\ reqState[r] = "running"
       /\ \E outcome \in {"resolved", "rejected"} :
            reqState' = [reqState EXCEPT ![r] = outcome]
  /\ UNCHANGED <<pc, requestQueue, processing, enqueued, started,
                 inactiveInput, inactiveOutput, valInput, valOutput, thoughtProcess,
                 calls, toolsCalled, maxExecutionTime, served, execInput, lookups,
                 execOutput, retryVars, runVars, confVars>>

\* processQueue: the sleep of the finally block is over, processing = false
\* and processQueue() is called again
SleepElapses ==
  /\ pc = "queue"
  /\ processing
  /\ \A r \in RequestIds : reqState[r] # "running"
  /\ AfterProcessQueue(requestQueue, FALSE, reqState)
  /\ UNCHANGED <<pc, enqueued,
                 inactiveInput, inactiveOutput, valInput, valOutput, thoughtProcess,
                 calls, toolsCalled, maxExecutionTime, served, execInput, lookups,
                 execOutput, retryVars, runVars, confVars>>

InitQueue ==
  /\ pc = "queue"
  /\ stage = "task"
  /\ request = NoRequest
  /\ apiConfig = NoKeys
  /\ InitRetry /\ InitRun /\ InitConf /\ InitAux
  /\ InitConfig

NextQueue ==
  \/ RateLimitedRequest
  \/ FnSettles
  \/ SleepElapses

SpecQueue == InitQueue /\ [][NextQueue]_vars

\* every request function terminates and every timer fires
SpecQueueFair == SpecQueue /\ WF_vars(FnSettles) /\ WF_vars(SleepElapses)

-----------------------------------------------------------------------------
(* Specification of an inactivity analysis followed by the confidence scoring
   of the same request *)

\* ConfidenceInput of a request whose presence check found the account
ScoredInputs ==
  {i \in CombinedInputs : /\ IsDefined(i.whatsapp)
                          /\ Get(i.whatsapp).exists
                          /\ i.validation.source = "numverify"
                          /\ i.retryContext = Undefined
                          /\ i.executionPlan.riskLevel = "low"
                          /\ ~i.executionPlan.skipWhatsApp}

\* InactivityInput of the same request: a mobile number
ScoredInactivityInputs ==
  {i \in InactivityInputs : /\ i.carrierStatus.lineType = "mobile"
                            /\ i.phoneNumber \in {<<"+", "1", "4", "1", "5">>,
                                                   <<"+", "4", "9", "3", "0">>}}

\* PHASE 4 of Supervisor.validate: confidenceAgent.execute is handed
\* validation, whatsapp, retryContext and executionPlan
ScoreAfterInactivity ==
  /\ pc = "inactive_done"
  /\ IsDefined(confInput)
  /\ confOutput' = Some(ConfidenceExecute(Get(confInput)))
  /\ pc' = "confidence_done"
  /\ UNCHANGED <<confInput, retryVars, runVars, auxVars>>

InitScored ==
  /\ pc = "inactive"
  /\ stage = "task"
  /\ request = NoRequest
  /\ apiConfig = NoKeys
  /\ InitRetry /\ InitRun
  /\ confInput \in {Some(i) : i \in ScoredInputs}
  /\ confOutput = Undefined
  /\ inactiveInput \in {Some(i) : i \in ScoredInactivityInputs}
  /\ inactiveOutput = Undefined
  /\ valInput = Undefined
  /\ valOutput = Undefined
  /\ thoughtProcess = [a \in ConfidenceInstances |-> 0]
  /\ calls = <<>>
  /\ InitExt /\ InitConfig

NextScored ==
  \/ InactivityCall
  \/ ScoreAfterInactivity

SpecScored == InitScored /\ [][NextScored]_vars

-----------------------------------------------------------------------------
(* Specification of one Supervisor serving several validate requests, one
   after the other, without a call of reset in between *)

MaxRequests == 2

\* the confidenceAgent created in the Supervisor constructor
SupervisorConfidenceAgent == "agent 1"

SessionRequests ==
  [phoneNumber : {<<"+", "1", "4", "1", "5">>, <<"+", "9", "1", "9", "8">>},
   country : {""}, prioritizeSpeed : {FALSE}]

\* answers of the metadata sources that carry data of a valid number
DataAnswers(tools) ==
  {outs \in ToolOutcomeSeqs(tools) :
     \A i \in 1..Len(outs) : IsDefined(outs[i].data) /\ Get(outs[i].data).valid}

\* Supervisor.validate for a request whose source calls all answer with data
\* at the first attempt, on a Supervisor whose confidenceAgent already holds
\* `thoughts` entries in its thoughtProcess.  Of chainOfThought the part
\* pushed from confidenceResponse.metadata.reasoning is kept (its length).
ValidateOnSupervisor(req, outs, wo, thoughts) ==
  LET p  == DecisionExecute(req)
      validationResponse ==
        ValidationExecute(validationTools(p), PrimaryKeys, outs, Undefined)
      vd == Get(validationResponse.data)
      rc == Some(RunRetryContext(validationResponse))
      wd == IF RunsWhatsApp(p, vd)
            THEN WhatsAppDataOf(WhatsAppExecute(wo, rc))
            ELSE Undefined
      input == [validation |-> vd, whatsapp |-> wd, retryContext |-> rc,
                executionPlan |-> [skipWhatsApp |-> p.skipWhatsApp,
                                   riskLevel |-> p.riskLevel]]
      ex == ExecuteOnInstance(input, thoughts)
  IN [result |-> [validation |-> vd, whatsapp |-> wd,
                  confidence |-> Get(ex.response.data),
                  executionPlan |-> p,
                  retryContext |-> rc,
                  chainOfThought |-> ex.response.metadata.reasoning],
      thoughtProcess |-> ex.thoughtProcess]

\* one call of validate on the Supervisor, from its start to its return
ServeRequest ==
  /\ pc = "session"
  /\ Len(served) < MaxRequests
  /\ \E req \in SessionRequests, wo \in {ToolData(d) : d \in WhatsAppDataSet} :
       \E outs \in DataAnswers(validationTools(DecisionExecute(req))) :
         LET run == ValidateOnSupervisor(req, outs, wo,
                                         thoughtProcess[SupervisorConfidenceAgent])
         IN /\ served' = Append(served, [request |-> req, answers |-> outs,
                                         whatsapp |-> wo, result |-> run.result])
            /\ thoughtProcess' = [thoughtProcess EXCEPT
                                    ![SupervisorConfidenceAgent] = run.thoughtProcess]
  /\ UNCHANGED <<pc, inactiveInput, inactiveOutput, valInput, valOutput, calls,
                 toolsCalled, maxExecutionTime, execInput, lookups, execOutput,
                 queueVars, retryVars, runVars, confVars>>

InitSession ==
  /\ pc = "session"
  /\ stage = "task"
  /\ request = NoRequest
  /\ apiConfig = [primary |-> PrimaryKeys, backup |-> {}]
  /\ InitRetry /\ InitRun /\ InitConf /\ InitAux
  /\ InitConfig

NextSession == ServeRequest

SpecSession == InitSession /\ [][NextSession]_vars

-----------------------------------------------------------------------------
(* Properties *)

Ind(b) == IF b THEN 1 ELSE 0

\* the country a request is planned for: the hint, else the detected prefix
RequestCountry(req) ==
  IF req.country # "" THEN req.country ELSE detectCountryCode(req.phoneNumber)

\* C1 (as stated): the task wrapped by executeWithRetry and RetryAgent.execute
\* is invoked at most 3 times in total, the initial invocation included.
C1_AtMostThreeInvocations == \A s \in Stages : taskCalls[s] <= 3

\* C1 (amended): the wrapped task is invoked at most 4 times in total: the
\* orchestrator's initial invocation plus at most MAX_ATTEMPTS = 3 retry
\* attempts, whatever the task outcomes are.
C1_InitialPlusThreeRetries ==
  /\ context.attempts <= MAX_ATTEMPTS
  /\ \A s \in Stages : taskCalls[s] <= 1 + MAX_ATTEMPTS
  /\ taskCalls[stage] <= 1 + context.attempts

\* all three retries were made and the last one threw
C1_Witness ==
  /\ pc = "stage_done"
  /\ taskCalls["task"] = 4
  /\ IsDefined(context.lastError)
  /\ Get(context.lastError).code = "EXCEPTION"

\* C2: when the validation stage's initial call failed recoverably and the
\* retry policy succeeded on attempt n, the RetryContext handed to the
\* ConfidenceAgent has attempts = n and useBackupKey = (n >= 2), and the
\* retry deduction is 10 * n.
C2_RetryContextForwarded ==
  (/\ IsDefined(confInput) /\ IsDefined(confOutput)
   /\ IsDefined(retryResult["validation"])
   /\ Get(retryResult["validation"]).success)
  => LET n  == Get(retryResult["validation"]).context.attempts
         rc == Get(confInput).retryContext
     IN /\ IsDefined(rc)
        /\ Get(rc).attempts = n
        /\ Get(rc).useBackupKey = (n >= 2)
        /\ Get(Get(confOutput).data).breakdown.retryDeduction = 10 * n

\* C3: no exception leaves Supervisor.validate; every failure of a run is
\* returned as a result record.
C3_NoExceptionReachesCaller == ~IsDefined(thrown)

\* expected score of C4, with the presence-skipped term passed in
C4_Expected(input, skippedTerm) ==
  LET v  == input.validation
      wa == input.whatsapp
      attempts == IF IsDefined(input.retryContext)
                  THEN Get(input.retryContext).attempts ELSE 0
      conflict == /\ v.source = "both" /\ Len(v.rawData) = 2
                  /\ Len(detectCarrierConflicts(v.rawData)) > 0
      raw == 100 - 15 * Ind(~v.valid) - 5 * Ind(v.lineType = "unknown")
                 - 20 * Ind(conflict) - 10 * attempts
                 - 10 * Ind(v.lineType = "landline" /\ IsDefined(wa) /\ Get(wa).exists)
                 - 5 * skippedTerm
                 + 5 * Ind(IsDefined(wa) /\ Get(wa).exists /\ Get(wa).verified)
                 + 3 * Ind(IsDefined(wa) /\ Get(wa).businessAccount)
                 - 10 * Ind(input.executionPlan.riskLevel = "high" /\ v.source # "both")
  IN IF raw < 0 THEN 0 ELSE IF raw > 100 THEN 100 ELSE raw

\* the presence check was skipped: the plan says skip and no record is passed
PresenceSkipped(input) ==
  ~IsDefined(input.whatsapp) /\ input.executionPlan.skipWhatsApp

\* C4 (as stated): for retry attempts in 0..3 the score is the clamped sum in
\* which the 5-point skip deduction applies only when the line type is not
\* landline.
C4_FormulaAsStated ==
  (/\ IsDefined(confOutput)
   /\ AttemptsOrZero(Get(confInput).retryContext) <= 3)
  => Get(Get(confOutput).data).score =
       C4_Expected(Get(confInput),
                   Ind(PresenceSkipped(Get(confInput))
                       /\ Get(confInput).validation.lineType # "landline"))

\* C4 (amended): the score is the clamped sum in which the 5-point skip
\* deduction applies whenever the plan's skip flag is set and no presence
\* record is passed, whatever the line type.
C4_FormulaWithSkipForAnyLineType ==
  IsDefined(confOutput)
  => Get(Get(confOutput).data).score =
       C4_Expected(Get(confInput), Ind(PresenceSkipped(Get(confInput))))

\* a skipped presence check on a landline, after three retries
C4_Witness ==
  /\ IsDefined(confOutput)
  /\ PresenceSkipped(Get(confInput))
  /\ Get(confInput).validation.lineType = "landline"
  /\ AttemptsOrZero(Get(confInput).retryContext) = 3

\* raw total of the breakdown, before the clamp
RawTotal(score) ==
  score.breakdown.baseScore - score.breakdown.carrierDeduction
  - score.breakdown.retryDeduction + score.breakdown.whatsappBonus

\* C5: the score is an integer in 0..100, and a raw total above 100 gives
\* exactly 100.
C5_ScoreInRange ==
  IsDefined(confOutput)
  => LET cs == Get(Get(confOutput).data)
     IN /\ cs.score \in 0..100
        /\ (RawTotal(cs) > 100 => cs.score = 100)
        /\ (RawTotal(cs) < 0 => cs.score = 0)

\* base 100 plus the presence bonus: raw total 105
C5_Witness ==
  /\ IsDefined(confOutput)
  /\ RawTotal(Get(Get(confOutput).data)) = 105
  /\ Get(Get(confOutput).data).score = 100

\* the run has a plan that asks for presence and a mobile line type
C6_PresencePlanned ==
  /\ ~Get(result).executionPlan.skipWhatsApp
  /\ Get(result).validation.lineType = "mobile"

C7_HighRiskSet == {"NG", "PK", "IN", "BD", "ID", "GH", "KE", "UG", "ZA"}

\* C7: a request whose country (hint, or detected prefix without a hint) is
\* high-risk gets a plan with riskLevel high and two validation steps that
\* use different tools.
C7_HighRiskDualValidation ==
  (IsDefined(plan) /\ RequestCountry(request) \in C7_HighRiskSet)
  => /\ Get(plan).riskLevel = "high"
     /\ \E i, j \in 1..Len(Get(plan).steps) :
          /\ Get(plan).steps[i].agent = "validation"
          /\ Get(plan).steps[j].agent = "validation"
          /\ Get(plan).steps[i].tool # Get(plan).steps[j].tool

\* a plan for a high-risk country that only the hint names
C7_Witness ==
  /\ IsDefined(plan)
  /\ request.country = "KE"
  /\ detectCountryCode(request.phoneNumber) \notin C7_HighRiskSet

\* the plan generator classifies the request as landline-likely
C8_LandlineLikely ==
  isLandlineLikely(request.phoneNumber, RequestCountry(request))

\* C8: for a landline-likely request the plan has skipWhatsApp, no whatsapp
\* step, and the run never calls the WhatsApp agent nor yields a whatsapp
\* record.
C8_LandlineNeverChecksPresence ==
  (IsDefined(plan) /\ C8_LandlineLikely)
  => /\ Get(plan).skipWhatsApp
     /\ \A i \in 1..Len(Get(plan).steps) : Get(plan).steps[i].agent # "whatsapp"
     /\ taskCalls["whatsapp"] = 0
     /\ ~IsDefined(whatsappData)
     /\ (IsDefined(result) => ~IsDefined(Get(result).whatsapp))

\* a landline-likely request whose metadata came back mobile, run completed
C8_Witness ==
  /\ pc = "done"
  /\ C8_LandlineLikely
  /\ ~request.prioritizeSpeed
  /\ Get(result).validation.lineType = "mobile"

\* carrier name without letter case and whitespace
NormalizedCarrier(c) ==
  CASE c = "AT&T"          -> "at&t"
    [] c = "at&t"          -> "at&t"
    [] c = "AT&T "         -> "at&t"
    [] c = "AT&T Mobility" -> "at&tmobility"
    [] OTHER               -> c

\* two reported line types name the same kind of line
LineTypesAgree(t1, t2) ==
  \/ ToLowerCase(t1) = ToLowerCase(t2)
  \/ {ToLowerCase(t1), ToLowerCase(t2)} = {"fixed_line", "landline"}

\* C9: two sources that both succeeded, with carriers that differ after
\* normalization and agreeing line types and validity flags, give exactly
\* one conflict entry and a conflict deduction of 20.
C9_OneCarrierConflict ==
  IsDefined(confOutput)
  => LET v  == Get(confInput).validation
         s1 == FindSource(v.rawData, "numverify")
         s2 == FindSource(v.rawData, "abstract")
     IN (/\ v.source = "both" /\ IsDefined(s1) /\ IsDefined(s2)
         /\ Get(s1).carrier # "" /\ Get(s2).carrier # ""
         /\ NormalizedCarrier(Get(s1).carrier) # NormalizedCarrier(Get(s2).carrier)
         /\ LineTypesAgree(Get(s1).line_type, Get(s2).type)
         /\ Get(s1).valid = Get(s2).valid)
        => /\ Len(detectCarrierConflicts(v.rawData)) = 1
           /\ Get(Get(confOutput).data).breakdown.carrierDeduction = 20

\* C10: with the plan's skip flag set and no presence record passed, the
\* record has the 5-point deduction and the discrepancy entry for the skipped
\* check, also for a landline.
C10_SkipDeductedAndReported ==
  (IsDefined(confOutput) /\ PresenceSkipped(Get(confInput)))
  => LET input == Get(confInput)
         cs    == Get(Get(confOutput).data)
     IN /\ \E i \in 1..Len(cs.discrepancies) :
             cs.discrepancies[i] = "WhatsApp check was skipped"
        /\ cs.breakdown.baseScore =
             100 - 15 * Ind(~input.validation.valid)
                 - 5 * Ind(input.validation.lineType = "unknown")
                 - 10 * Ind(input.executionPlan.riskLevel = "high"
                            /\ input.validation.source # "both")
                 - 5

\* the skipped check on a landline
C10_Witness ==
  /\ IsDefined(confOutput)
  /\ PresenceSkipped(Get(confInput))
  /\ Get(confInput).validation.lineType = "landline"
  /\ Get(Get(confOutput).data).breakdown.baseScore = 95

\* C11: with zero delivery history records the history adds nothing to the
\* inactivity score (which is then the carrier and prevalence penalties
\* alone), the reasons name the missing history, and isInactive is false,
\* for every carrier status and country.
C11_NoHistoryIsNeutral ==
  (IsDefined(inactiveOutput)
   /\ Get(inactiveInput).deliveryHistory.totalMessages = 0)
  => LET inp == Get(inactiveInput)
         out == Get(inactiveOutput)
         cs  == inp.carrierStatus
     IN /\ out.inactivityScore =
             30 * Ind(~cs.active)
             + 25 * Ind(cs.active /\ cs.lineType = "landline")
             + 10 * Ind(cs.active /\ cs.lineType = "voip")
             + 15 * Ind(out.countryPrevalence.whatsappUsage < 40)
        /\ \E i \in 1..Len(out.reasons) :
             out.reasons[i] = "No delivery history available for analysis"
        /\ ~out.isInactive

\* no history, a number the carrier dropped, a low-adoption country: score 45
C11_Witness ==
  /\ IsDefined(inactiveOutput)
  /\ Get(inactiveInput).deliveryHistory.totalMessages = 0
  /\ ~Get(inactiveInput).carrierStatus.active
  /\ Get(inactiveOutput).countryPrevalence.country = "US"
  /\ Get(inactiveOutput).inactivityScore = 45

\* C13: the InactivityRecord has 0 <= inactivityScore <= 100 and
\* 0 <= deliveryProbability <= 100, also when the failure-rate,
\* time-since-success, carrier and low-adoption penalties all fire.
C13_ScoresInRange ==
  IsDefined(inactiveOutput)
  => /\ Get(inactiveOutput).inactivityScore \in 0..100
     /\ Get(inactiveOutput).deliveryProbability \in 0..100

C14_BothMeansTwoSources ==
  (/\ IsDefined(valOutput)
   /\ Get(valOutput).success
   /\ Get(Get(valOutput).data).source = "both")
  => /\ IsDefined(FindSource(Get(Get(valOutput).data).rawData, "numverify"))
     /\ IsDefined(FindSource(Get(Get(valOutput).data).rawData, "abstract"))

\* backoff of the n-th retry as C15 states it
C15_Delay(n) ==
  CASE n = 1 -> 2000
    [] n = 2 -> 4000
    [] n = 3 -> 8000
    [] OTHER -> 0

\* C15: the n-th retry attempt (n = 1, 2, 3) starts only after a backoff wait
\* of 2000, 4000, 8000 ms has elapsed on top of the earlier waits, and
\* RetryContext.backoffDelay holds that value while the attempt runs.
C15_BackoffBeforeAttempt ==
  LET n == context.attempts IN
  /\ pc = "sleeping"
     => /\ n \in 1..3
        /\ taskCalls[stage] = n
        /\ context.backoffDelay = C15_Delay(n)
        /\ waited + C15_Delay(n) = 2000 * (2^n - 1)
  /\ pc = "attempting"
     => /\ n \in 1..3
        /\ taskCalls[stage] = n
        /\ context.backoffDelay = C15_Delay(n)
        /\ waited = 2000 * (2^n - 1)

\* the third retry is about to run: 2000 + 4000 + 8000 ms have been waited
C15_Witness ==
  /\ pc = "attempting"
  /\ context.attempts = 3
  /\ context.backoffDelay = 8000
  /\ waited = 14000

\* C16: when the retry policy has made its maximum number of attempts and
\* none succeeded, the response handed back to the orchestrator has error
\* code SYSTEM_FAILURE and recoverable = false, whether the attempts returned
\* error responses or threw.
C16_ExhaustedIsSystemFailure ==
  (/\ pc = "stage_done"
   /\ IsDefined(retryResult[stage])
   /\ ~Get(retryResult[stage]).success)
  => /\ ~Get(response).success
     /\ Get(Get(response).error).code = "SYSTEM_FAILURE"
     /\ ~Get(Get(response).error).recoverable

\* C17: after an attempt (the initial call or a retry) ended with a
\* non-recoverable error the retry policy neither waits nor attempts again,
\* and a non-recoverable initial error leaves RetryContext.attempts at 0.
C17_NonRecoverableStopsRetrying ==
  /\ pc \in {"sleeping", "attempting"}
     => /\ IsDefined(context.lastError)
        /\ Get(context.lastError).recoverable
  /\ (/\ pc = "stage_done"
      /\ ~Get(response).success
      /\ ~IsDefined(retryResult[stage]))
     => /\ context.attempts = 0
        /\ taskCalls[stage] = 1
        /\ waited = 0

\* C18: from the second retry attempt onward the wrapped task runs with the
\* backup credential set when one is configured, and RetryContext.useBackupKey
\* is true exactly when the attempt that ran used the backup credentials.
C18_BackupKeyActuallyUsed ==
  /\ (taskCalls[stage] >= 3 /\ apiConfig.backup # {})
     => keySetUsed = "backup"
  /\ (taskCalls[stage] >= 2 /\ pc # "attempting")
     => (context.useBackupKey <=> keySetUsed = "backup")

\* C19: an authentication error (401/403) from a source is recoverable, and
\* so retried, only if a backup credential is configured; without one no
\* retry is made.
C19_AuthRetriedOnlyWithBackup ==
  (/\ pc \in {"sleeping", "attempting"}
   /\ IsDefined(context.lastError)
   /\ Get(context.lastError).code = "AUTH_ERROR")
  => apiConfig.backup # {}

\* C20: two sources that both succeeded, with carrier strings that differ only
\* in letter case or whitespace and with the same line type and validity,
\* give no conflict entry and a conflict deduction of 0.
C20_CarrierCompareNormalized ==
  IsDefined(confOutput)
  => LET v  == Get(confInput).validation
         s1 == FindSource(v.rawData, "numverify")
         s2 == FindSource(v.rawData, "abstract")
     IN (/\ v.source = "both" /\ IsDefined(s1) /\ IsDefined(s2)
         /\ Get(s1).carrier # "" /\ Get(s2).carrier # ""
         /\ NormalizedCarrier(Get(s1).carrier) = NormalizedCarrier(Get(s2).carrier)
         /\ ToLowerCase(Get(s1).line_type) = ToLowerCase(Get(s2).type)
         /\ Get(s1).valid = Get(s2).valid)
        => /\ Len(detectCarrierConflicts(v.rawData)) = 0
           /\ Get(Get(confOutput).data).breakdown.carrierDeduction = 0

\* C21: when both sources succeeded and one reports "landline" while the other
\* reports "fixed_line" (after lower-casing), in either order, the conflict
\* detection gives no line-type conflict entry.
C21_FixedLineLandlineSymmetric ==
  IsDefined(confOutput)
  => LET v  == Get(confInput).validation
         s1 == FindSource(v.rawData, "numverify")
         s2 == FindSource(v.rawData, "abstract")
     IN (/\ v.source = "both" /\ IsDefined(s1) /\ IsDefined(s2)
         /\ {ToLowerCase(Get(s1).line_type), ToLowerCase(Get(s2).type)}
              = {"fixed_line", "landline"})
        => LET conflicts == Get(Get(confOutput).data).discrepancies
           IN \A i \in 1..Len(conflicts) :
                conflicts[i] \notin
                  {"Line type mismatch: NumVerify=\"landline\" vs Abstract=\"fixed_line\"",
                   "Line type mismatch: NumVerify=\"fixed_line\" vs Abstract=\"landline\""}

\* C22: the lineType of the merged ValidationRecord is one of mobile,
\* landline, voip, unknown, whatever line-type strings the sources returned.
C22_LineTypeInEnumeration ==
  (IsDefined(valOutput) /\ Get(valOutput).success)
  => Get(Get(valOutput).data).lineType \in {"mobile", "landline", "voip", "unknown"}

\* position i of the tools list is a source the loop calls
C23_Callable(i) ==
  LET inp == Get(valInput)
  IN inp.tools[i] \in {"numverify", "abstract"} /\ inp.tools[i] \in inp.apiKeys

\* the source called at position i answered 401 or 403
C23_AuthAt(i) ==
  /\ C23_Callable(i)
  /\ IsDefined(Get(valInput).answers[i].error)
  /\ Get(Get(valInput).answers[i].error) \in {"401", "403"}

\* the source called at position i answered with data
C23_DataAt(i) ==
  C23_Callable(i) /\ IsDefined(Get(valInput).answers[i].data)

\* C23: in ValidationAgent.execute the tools are called in plan order; a 401
\* or 403 from a tool ends the collection at once with an AUTH_ERROR outcome
\* and no later tool is called; any other tool error skips that tool and the
\* remaining tools are still called; the outcome is NO_DATA (recoverable)
\* exactly when no tool returned data and no auth error occurred.
C23_ToolLoopOutcome ==
  pc = "validation_done"
  => LET inp  == Get(valInput)
         out  == Get(valOutput)
         n    == Len(inp.tools)
         auth == {i \in 1..n : C23_AuthAt(i)}
         stop == IF auth = {} THEN n
                 ELSE CHOOSE i \in auth : \A j \in auth : i <= j
         code == IF IsDefined(out.error) THEN Get(out.error).code ELSE "none"
     IN /\ \A k \in 1..Len(toolsCalled) :
             /\ toolsCalled[k] \in 1..stop
             /\ C23_Callable(toolsCalled[k])
             /\ \A m \in 1..(k - 1) : toolsCalled[m] < toolsCalled[k]
        /\ \A i \in 1..stop :
             C23_Callable(i) => \E k \in 1..Len(toolsCalled) : toolsCalled[k] = i
        /\ auth # {} => (~out.success /\ code = "AUTH_ERROR")
        /\ (code = "NO_DATA")
             <=> (auth = {} /\ ~\E i \in 1..n : C23_DataAt(i))
        /\ code = "NO_DATA" => Get(out.error).recoverable
        /\ (auth = {} /\ \E i \in 1..n : C23_DataAt(i))
             => /\ out.success
                /\ Len(Get(out.data).rawData)
                     = Cardinality({i \in 1..n : C23_DataAt(i)})

\* a first source that answered with data, then a second one answering 401:
\* AUTH_ERROR, both were called
C23_Witness ==
  /\ pc = "validation_done"
  /\ Len(Get(valInput).tools) = 2
  /\ C23_DataAt(1)
  /\ C23_AuthAt(2)
  /\ toolsCalled = <<1, 2>>
  /\ ~Get(valOutput).success
  /\ Get(Get(valOutput).error).code = "AUTH_ERROR"

\* C24: a failure of the presence stage (retries exhausted, or an error that
\* is not retried) never aborts the run: nothing is thrown in that stage, and
\* the completed run has a ValidationResult with a confidence record and no
\* whatsapp record.
C24_PresenceFailureDoesNotAbort ==
  /\ stage = "whatsapp" => (pc # "thrown" /\ ~IsDefined(thrown))
  /\ (stage = "whatsapp" /\ pc \notin {"call", "sleeping", "attempting", "stage_done"})
       => pc = "done"
  /\ (pc = "done" /\ stage = "whatsapp" /\ ~Get(response).success)
       => /\ IsDefined(result)
          /\ Get(result).confidence = Get(Get(confOutput).data)
          /\ Get(result).confidence.score \in 0..100
          /\ ~IsDefined(Get(result).whatsapp)

\* the presence call and its three retries all failed on authentication and
\* the run completed with a score
C24_Witness ==
  /\ pc = "done"
  /\ stage = "whatsapp"
  /\ taskCalls["whatsapp"] = 4
  /\ ~Get(response).success
  /\ Get(Get(response).error).code = "AUTH_ERROR"
  /\ IsDefined(result)
  /\ ~IsDefined(Get(result).whatsapp)

\* C25: for a mobile line the alternative channels follow the severity of the
\* same record: high or critical gives SMS, voice call, email and postal
\* mail; moderate gives SMS and email.
C25_ChannelsFollowSeverity ==
  (pc = "inactive_done" /\ Get(inactiveInput).carrierStatus.lineType = "mobile")
  => LET out == Get(inactiveOutput)
     IN /\ out.severity \in {"high", "critical"}
             => out.alternativeChannels = << "SMS", "Voice Call", "Email", "Postal Mail" >>
        /\ out.severity = "moderate"
             => out.alternativeChannels = << "SMS", "Email" >>

\* C26: when an inactivity record of the request marks the number inactive,
\* the confidence score is the base formula reduced by half of
\* (100 - deliveryProbability), clamped to 0..100 afterwards (stated on twice
\* the score to stay in the integers).
C26_InactivityReducesScore ==
  (pc = "confidence_done" /\ IsDefined(inactiveOutput) /\ Get(inactiveOutput).isInactive)
  => LET c == Get(Get(confOutput).data)
         b == c.breakdown
         raw == b.baseScore - b.carrierDeduction - b.retryDeduction + b.whatsappBonus
         reduced2 == 2 * raw - (100 - Get(inactiveOutput).deliveryProbability)
     IN 2 * c.score = Min(200, Max(0, reduced2))

\* C27: every run of Supervisor.validate ends within maxExecutionTime: the
\* time spent in the run (of which the backoff sleeps are a part) never
\* passes the configured maximum, a call or sleep that would pass it being
\* cancelled.
C27_RunWithinMaxExecutionTime ==
  waited <= maxExecutionTime

\* C28: two validate requests served by the same Supervisor one after the
\* other do not influence each other: with the same request and the same
\* source answers, the results (reasoning trace, retry context, confidence
\* score) are the same whatever was served before.
C28_RequestsIndependent ==
  \A i, j \in 1..Len(served) :
    (/\ served[i].request = served[j].request
     /\ served[i].answers = served[j].answers
     /\ served[i].whatsapp = served[j].whatsapp)
    => served[i].result = served[j].result

\* C29: in InactiveAccountAgent.execute a failed lookup aborts neither the
\* other lookup nor the analysis: a failed history lookup counts as an empty
\* history, a failed carrier lookup as the default active mobile status, and
\* execute returns a successful response with the analysis of those values.
C29_LookupsFailIndependently ==
  /\ (IsDefined(lookups.history) /\ "history" \in lookups.failed)
       => Get(lookups.history).totalMessages = 0
  /\ (IsDefined(lookups.carrier) /\ "carrier" \in lookups.failed)
       => /\ Get(lookups.carrier).active
          /\ Get(lookups.carrier).lineType = "mobile"
  /\ pc = "exec_done"
       => /\ IsDefined(execOutput)
          /\ Get(execOutput).success
          /\ IsDefined(lookups.history) /\ IsDefined(lookups.carrier)
          /\ Get(Get(execOutput).data)
               = analyzeInactivity([phoneNumber |-> Get(execInput).phoneNumber,
                                    deliveryHistory |-> Get(lookups.history),
                                    carrierStatus |-> Get(lookups.carrier)])
          /\ "history" \in lookups.failed
               => "No delivery history available for analysis"
                    \in {Get(Get(execOutput).data).reasons[k]
                           : k \in 1..Len(Get(Get(execOutput).data).reasons)}
  /\ IsDefined(execOutput) => Get(execOutput).success

\* both lookups failed and execute returned a successful record
C29_Witness ==
  /\ pc = "exec_done"
  /\ lookups.failed = {"history", "carrier"}
  /\ Get(execOutput).success
  /\ ~Get(Get(execOutput).data).isInactive

\* the serial first-in-first-out schedule of the queued request functions
C30_SerialFifo ==
  /\ Cardinality({r \in RequestIds : reqState[r] = "running"}) <= 1
  /\ Len(started) <= Len(enqueued)
  /\ \A k \in 1..Len(started) : started[k] = enqueued[k]

\* C30: for any interleaving of calls of rateLimitedRequest on one agent, the
\* request functions run one at a time and start in enqueue order, and every
\* enqueued request is eventually executed and its promise settled, provided
\* each request function terminates.
C30_QueueSerialFifoAndLive ==
  /\ []C30_SerialFifo
  /\ \A r \in RequestIds :
       (reqState[r] = "queued") ~> (reqState[r] \in {"resolved", "rejected"})

\* two requests were queued while the first was running, and all three
\* have run, in the order of their calls, and are settled
C30_Witness ==
  /\ pc = "queue"
  /\ enqueued = <<3, 1, 2>>
  /\ started = <<3, 1, 2>>
  /\ \A r \in RequestIds : reqState[r] \in {"resolved", "rejected"}
  /\ reqState[2] = "rejected"
  /\ requestQueue = <<>>

====
